---- MODULE Spec2Model ----
(***************************************************************************)
(* Media-stream extraction pipeline of video_player_ai/preload.js, and the *)
(* attendance trackers of attendence_ai.                                   *)
(*                                                                         *)
(* Spec      the interactive (Electron) mode: the 'extract-stream' IPC     *)
(*           handler, the ffmpeg subprocess it spawns, and the temp-file   *)
(*           sweep cleanupTempFiles run at startup and window-all-closed.  *)
(* SpecNorm  the subtitle clean-up transformation as a pure function over  *)
(*           bounded file contents.                                        *)
(* SpecBatch the batch (/upload) handler.                                  *)
(* SpecApp   the interactive mode with both IPC requests, 'analyze-file'   *)
(*           and 'extract-stream', over the application lifecycle.         *)
(*                                                                         *)
(* The attendance trackers of attendence_ai:                               *)
(* SpecTracker  react.js: subjects with attended / total counters.         *)
(* SpecNeeded   react.js: the analysis of SubjectDetail as a function of   *)
(*              bounded counters and thresholds.                           *)
(* SpecPro      attendance-tracker/src/App.js: subjects, timetable, time   *)
(*              slots and attendance records.                              *)
(*                                                                         *)
(* Strings the code inspects character by character (file names, paths,    *)
(* file contents) are sequences of one-character strings.                  *)
(***************************************************************************)
EXTENDS Integers, Sequences, FiniteSets, TLC

(***************************************************************************)
(* Bounds of the model.                                                    *)
(***************************************************************************)
MaxReqs == 2            \* 'extract-stream' requests of one window session
MaxLifecycleReqs == 1   \* 'extract-stream' requests of a whole application run
MaxClock == 10          \* last value of Date.now() (the clock starts one before)
MaxSweeps == 2          \* cleanupTempFiles runs of a whole application run
MaxPieces == 4          \* pieces a subtitle file content is made of
MaxPasses == 2          \* clean-ups applied to one file content
MaxUploads == 2         \* /upload requests per run
MaxProbes == 1          \* 'analyze-file' requests per run
MaxTrackerSubjects == 2 \* subjects of the attendance tracker
MaxCount == 2           \* Present / Absent are pressed while the counters are below it
MaxTrackerClock == 3    \* last value of Date.now() in the attendance tracker
MaxClasses == 6         \* largest total handed to the analysis of SubjectDetail

(***************************************************************************)
(* String helpers (JavaScript String methods on character sequences).      *)
(***************************************************************************)
Digit == <<"0", "1", "2", "3", "4", "5", "6", "7", "8", "9">>

RECURSIVE ToStr(_)
\* `${n}` for a non-negative integer: its decimal digits
ToStr(n) == IF n < 10 THEN <<Digit[n + 1]>>
            ELSE ToStr(n \div 10) \o <<Digit[(n % 10) + 1]>>

\* String.prototype.startsWith
StartsWith(s, p) == Len(s) >= Len(p) /\ SubSeq(s, 1, Len(p)) = p

\* String.prototype.endsWith
EndsWith(s, p) == Len(s) >= Len(p) /\ SubSeq(s, Len(s) - Len(p) + 1, Len(s)) = p

\* String.prototype.includes
Includes(s, p) ==
    \E i \in 1..(Len(s) - Len(p) + 1) : SubSeq(s, i, i + Len(p) - 1) = p

(***************************************************************************)
(* Paths and names.                                                        *)
(***************************************************************************)
TempDir == <<"/", "t", "m", "p">>                                \* os.tmpdir()
Marker == <<"m", "x", "-", "p", "l", "a", "y", "e", "r", "-">>   \* 'mx-player-'
AudioTag == <<"_", "a", "u", "d", "i", "o", "_">>
SubTag == <<"_", "s", "u", "b", "_">>
AacExt == <<".", "a", "a", "c">>
VttExt == <<".", "v", "t", "t">>

\* path.join(dir, name)
PathJoin(dir, name) == dir \o <<"/">> \o name

\* the entry of the temp directory a path under TempDir names
FileOf(p) == SubSeq(p, Len(TempDir) + 2, Len(p))

\* `mx-player-${Date.now()}`
UniqueId(t) == Marker \o ToStr(t)

AudioOutputPath(t, idx) == PathJoin(TempDir, UniqueId(t) \o AudioTag \o ToStr(idx) \o AacExt)

SubOutputPath(t, idx) == PathJoin(TempDir, UniqueId(t) \o SubTag \o ToStr(idx) \o VttExt)

(***************************************************************************)
(* Subtitle clean-up (lines 138-145).                                      *)
(***************************************************************************)
NL == "\n"
Quote == "\""
Arrow == <<"-", "-", ">">>
Header == <<"W", "E", "B", "V", "T", "T">>
WhiteSpace == {" ", "\t", "\r", "\n"}
DigitChars == {Digit[i] : i \in 1..10}

RECURSIVE SplitLines(_)
\* content.split('\n')
SplitLines(s) ==
    IF \A i \in 1..Len(s) : s[i] # NL THEN <<s>>
    ELSE LET k == CHOOSE i \in 1..Len(s) : s[i] = NL /\ \A j \in 1..(i - 1) : s[j] # NL
         IN  <<SubSeq(s, 1, k - 1)>> \o SplitLines(SubSeq(s, k + 1, Len(s)))

RECURSIVE JoinLines(_)
\* lines.join('\n')
JoinLines(ls) ==
    IF Len(ls) = 0 THEN <<>>
    ELSE IF Len(ls) = 1 THEN ls[1]
    ELSE ls[1] \o <<NL>> \o JoinLines(Tail(ls))

RECURSIVE TrimLeft(_)
TrimLeft(s) == IF Len(s) > 0 /\ s[1] \in WhiteSpace THEN TrimLeft(Tail(s)) ELSE s

RECURSIVE TrimRight(_)
TrimRight(s) ==
    IF Len(s) > 0 /\ s[Len(s)] \in WhiteSpace THEN TrimRight(SubSeq(s, 1, Len(s) - 1)) ELSE s

\* String.prototype.trim
Trim(s) == TrimRight(TrimLeft(s))

\* /^\d+$/.test(s)
IsDigits(s) == Len(s) > 0 /\ \A i \in 1..Len(s) : s[i] \in DigitChars

IsStructuralNoArrow(line) ==
    \/ IsDigits(Trim(line))
    \/ Trim(line) = Header
    \/ Trim(line) = <<>>

\* the condition of line 140
IsStructural(line) ==
    \/ Includes(line, Arrow)
    \/ IsDigits(Trim(line))
    \/ Trim(line) = Header
    \/ Trim(line) = <<>>

StripFirstQuote(line) ==
    IF \A i \in 1..Len(line) : line[i] # Quote THEN line
    ELSE LET k == CHOOSE i \in 1..Len(line) : line[i] = Quote /\ \A j \in 1..(i - 1) : line[j] # Quote
         IN  SubSeq(line, 1, k - 1) \o SubSeq(line, k + 1, Len(line))

\* line.replace(/"/g, '')
StripQuotes(line) == SelectSeq(line, LAMBDA c : c # Quote)

\* the map callback of lines 139-144
CleanLine(line) == IF IsStructural(line) THEN line ELSE StripQuotes(line)

CleanContentDropBlank(content) ==
    LET ls == SelectSeq(SplitLines(content), LAMBDA l : l # <<>>)
    IN  JoinLines([i \in 1..Len(ls) |-> CleanLine(ls[i])])

\* vttContent.split('\n').map(...).join('\n')
CleanContent(content) ==
    LET ls == SplitLines(content)
    IN  JoinLines([i \in 1..Len(ls) |-> CleanLine(ls[i])])

(***************************************************************************)
(* State.                                                                 *)
(***************************************************************************)
VARIABLES
    now,        \* Date.now()
    app,        \* lifecycle of the Electron app
    platform,   \* process.platform
    tmp,        \* the temp directory: entry name -> file content
    reqs,       \* the 'extract-stream' requests, in arrival order
    sweeps,     \* the cleanupTempFiles runs, in start order
    probes,     \* the 'analyze-file' requests, in arrival order
    vttIn,      \* clean-up alone: the content read by the last clean-up
    vtt,        \* clean-up alone: the content of the file
    passes,     \* clean-up alone: the clean-ups applied so far
    srvNow,     \* batch mode: Date.now() of the server
    uploads,    \* batch mode: the /upload requests, in arrival order
    processed,  \* batch mode: the files written under processed/
    subjects,           \* attendance tracker (react.js): the subjects
    selectedSubjectId,  \* attendance tracker: the subject shown in detail, 0 for null
    clock,              \* attendance tracker: Date.now() of the browser
    detail,             \* attendance tracker: a subject handed to SubjectDetail
    proSubjects,        \* timetable tracker (App.js): subjects
    proSelected,        \* timetable tracker: selectedSubjectId, 0 for null
    timetable,          \* timetable tracker: day -> entries
    timeSlots,          \* timetable tracker: the time slots
    attendanceRecords,  \* timetable tracker: record key -> record
    proClock            \* timetable tracker: Date.now() of the browser

ivars == <<now, app, platform, tmp, reqs, sweeps, probes>>
nvars == <<vttIn, vtt, passes>>
bvars == <<srvNow, uploads, processed>>
rvars == <<subjects, selectedSubjectId, clock, detail>>
avars == <<proSubjects, proSelected, timetable, timeSlots, attendanceRecords, proClock>>
tvars == <<rvars, avars>>
vars == <<ivars, nvars, bvars, tvars>>

Missing == "undefined"      \* a property the caller's object does not have

\* stream objects a renderer may pass (codec_type, codec_name, index)
StreamPool ==
    { [codec_type |-> "audio",    codec_name |-> "aac",    index |-> 1],
      [codec_type |-> "audio",    codec_name |-> "mp3",    index |-> 1],
      [codec_type |-> "audio",    codec_name |-> "AAC",    index |-> 12],
      [codec_type |-> "subtitle", codec_name |-> "subrip", index |-> 2],
      [codec_type |-> "subtitle", codec_name |-> "webvtt", index |-> 1],
      [codec_type |-> "video",    codec_name |-> "h264",   index |-> 0],
      [codec_type |-> "Audio",    codec_name |-> "aac",    index |-> 1],
      [codec_type |-> "data",     codec_name |-> "bin",    index |-> 3],
      [codec_type |-> Missing,    codec_name |-> "aac",    index |-> 1] }

FilePaths == {"a.mkv", "b.mkv"}

LaunchStderr == "ffmpeg: not found"
ExitStderr == "Invalid data found when processing input"

UnsupportedMsg == "Unsupported stream type for extraction."
FfmpegFailedMsg == "FFmpeg failed to extract stream: "

\* file contents
Partial == <<>>                              \* an output file ffmpeg has opened
AacData == <<"A", "D", "T", "S">>
VttQuoted == Header \o <<NL, NL, "1", NL, "0">> \o Arrow \o <<"1", NL, Quote, "h", "i", Quote, NL>>
VttPlain == Header \o <<NL, NL, "h", "i", NL>>
OldData == <<"x">>

\* entries the temp directory may hold when the app starts
Unrelated == <<"u", "n", "r", "e", "l", "a", "t", "e", "d", ".", "t", "x", "t">>
Orphan == Marker \o <<"1", "2", "3">> \o AudioTag \o <<"0">> \o AacExt
Embedded == <<"m", "y", "-">> \o Marker \o <<"1">>
InitialEntries == {Unrelated, Orphan, Embedded}

Put(f, name, c) == [n \in (DOMAIN f) \cup {name} |-> IF n = name THEN c ELSE f[n]]
Remove(f, name) == [n \in (DOMAIN f) \ {name} |-> f[n]]

NoCommand == [input |-> "", map |-> -1, codecOpt |-> "", codec |-> "", output |-> <<>>]
NoError == [msg |-> "", stderr |-> ""]

(***************************************************************************)
(* The synchronous part of the 'extract-stream' handler (lines 109-128).   *)
(***************************************************************************)
AudioCodecIgnoreCase(codec_name) == IF codec_name \in {"aac", "AAC"} THEN "copy" ELSE "aac"

\* lines 118-122: the codec selector of an audio extraction
AudioCodec(codec_name) == IF codec_name = "aac" THEN "copy" ELSE "aac"

SubtitleCodecCopyIfVtt(codec_name) == IF codec_name = "webvtt" THEN "copy" ELSE "webvtt"

\* line 125: the codec selector of a subtitle extraction
SubtitleCodec(codec_name) == "webvtt"

IsSupportedLoose(codec_type) == codec_type \in {"audio", "subtitle", "Audio", "video"}

\* lines 116, 123, 126: the codec_type values the handler extracts
IsSupported(codec_type) == codec_type = "audio" \/ codec_type = "subtitle"

\* lines 117, 124
OutputPath(t, stream) ==
    IF stream.codec_type = "audio" THEN AudioOutputPath(t, stream.index)
    ELSE SubOutputPath(t, stream.index)

\* lines 119, 121, 125: ffmpeg -y -i "<input>" -map 0:<map> <codecOpt> <codec> "<output>"
BuildCommand(filePath, stream, outputPath) ==
    IF stream.codec_type = "audio"
    THEN [input |-> filePath, map |-> stream.index, codecOpt |-> "-c:a",
          codec |-> AudioCodec(stream.codec_name), output |-> outputPath]
    ELSE [input |-> filePath, map |-> stream.index, codecOpt |-> "-c:s",
          codec |-> SubtitleCodec(stream.codec_name), output |-> outputPath]

\* the request as the handler leaves it when it returns its promise
NewRequest(filePath, stream, t) ==
    IF IsSupported(stream.codec_type)
    THEN [filePath |-> filePath, stream |-> stream, at |-> t,
          outputPath |-> OutputPath(t, stream),
          command |-> BuildCommand(filePath, stream, OutputPath(t, stream)),
          proc |-> "running", stderr |-> "",
          status |-> "pending", value |-> <<>>, error |-> NoError, fsOps |-> {},
          logged |-> {}]
    ELSE [filePath |-> filePath, stream |-> stream, at |-> t,
          outputPath |-> <<>>, command |-> NoCommand,
          proc |-> "none", stderr |-> "",
          status |-> "rejected", value |-> <<>>,
          error |-> [msg |-> UnsupportedMsg, stderr |-> ""], fsOps |-> {},
          logged |-> {}]

\* a request arrives when Date.now() reads t
ExtractStream(filePath, stream, t) ==
    /\ app = "running"
    /\ t >= now
    /\ now' = t
    /\ reqs' = Append(reqs, NewRequest(filePath, stream, t))
    /\ UNCHANGED <<app, platform, tmp, sweeps, probes, nvars, bvars, tvars>>

(***************************************************************************)
(* The ffmpeg subprocess of a request (exec, line 131).                    *)
(***************************************************************************)
\* ffmpeg -y opens (creates or truncates) its output file
FfmpegOpen(r) ==
    /\ r \in 1..Len(reqs)
    /\ reqs[r].proc = "running"
    /\ reqs' = [reqs EXCEPT ![r].proc = "writing"]
    /\ tmp' = Put(tmp, FileOf(reqs[r].outputPath), Partial)
    /\ UNCHANGED <<now, app, platform, sweeps, probes, nvars, bvars, tvars>>

\* the shell cannot launch ffmpeg: no file is opened
FfmpegLaunchFail(r) ==
    /\ r \in 1..Len(reqs)
    /\ reqs[r].proc = "running"
    /\ reqs' = [reqs EXCEPT ![r].proc = "exit1", ![r].stderr = LaunchStderr]
    /\ UNCHANGED <<now, app, platform, tmp, sweeps, probes, nvars, bvars, tvars>>

\* non-zero exit: whatever was written stays as it is
FfmpegFail(r) ==
    /\ r \in 1..Len(reqs)
    /\ reqs[r].proc = "writing"
    /\ reqs' = [reqs EXCEPT ![r].proc = "exit1", ![r].stderr = ExitStderr]
    /\ UNCHANGED <<now, app, platform, tmp, sweeps, probes, nvars, bvars, tvars>>

\* exit code 0: the stream is written to the file ffmpeg holds open; an entry
\* unlinked in the meantime does not come back
FfmpegSucceed(r, content) ==
    /\ r \in 1..Len(reqs)
    /\ reqs[r].proc = "writing"
    /\ reqs' = [reqs EXCEPT ![r].proc = "exit0"]
    /\ tmp' = IF FileOf(reqs[r].outputPath) \in DOMAIN tmp
              THEN Put(tmp, FileOf(reqs[r].outputPath), content)
              ELSE tmp
    /\ UNCHANGED <<now, app, platform, sweeps, probes, nvars, bvars, tvars>>

\* what ffmpeg can write for a stream
OutputContents(stream) ==
    IF stream.codec_type = "subtitle" THEN {VttQuoted, VttPlain} ELSE {AacData}

(***************************************************************************)
(* The exec callback of the handler (lines 131-152).                       *)
(***************************************************************************)
IoOutcomes == {"ok", "read-fails", "open-fails", "write-fails"}

\* lines 136-149: the file operations the callback performs
FsOps(req, files, io) ==
    IF req.proc # "exit0" \/ req.stream.codec_type # "subtitle" THEN {}
    ELSE IF FileOf(req.outputPath) \notin DOMAIN files \/ io = "read-fails" THEN {"read"}
    ELSE {"read", "write"}

CleanedFilesUnlinkOnError(req, files, io) ==
    IF req.proc # "exit0" THEN Remove(files, FileOf(req.outputPath))
    ELSE IF "write" \notin FsOps(req, files, io) \/ io = "open-fails" THEN files
    ELSE IF io = "write-fails" THEN Put(files, FileOf(req.outputPath), Partial)
    ELSE Put(files, FileOf(req.outputPath), CleanContent(files[FileOf(req.outputPath)]))

\* lines 136-149: the temp directory after the callback
CleanedFiles(req, files, io) ==
    IF "write" \notin FsOps(req, files, io) \/ io = "open-fails" THEN files
    ELSE IF io = "write-fails" THEN Put(files, FileOf(req.outputPath), Partial)
    ELSE Put(files, FileOf(req.outputPath), CleanContent(files[FileOf(req.outputPath)]))

ExecErrorLog == "FFmpeg exec error"
CleanFailedLog == "Failed to clean subtitle file"

\* lines 137-148: the clean-up throws (the read, the open or the write fails)
CleanThrows(req, files, io) ==
    /\ "read" \in FsOps(req, files, io)
    /\ \/ "write" \notin FsOps(req, files, io)
       \/ io \in {"open-fails", "write-fails"}

\* lines 133, 147: what the callback logs with console.error
Logged(req, files, io) ==
    IF req.proc = "exit1" THEN {ExecErrorLog}
    ELSE IF CleanThrows(req, files, io) THEN {CleanFailedLog}
    ELSE {}

SettledRejectOnCleanFailure(req, files, io) ==
    IF req.proc = "exit1" \/ CleanThrows(req, files, io)
    THEN [req EXCEPT !.status = "rejected",
                     !.error = [msg |-> FfmpegFailedMsg, stderr |-> req.stderr],
                     !.fsOps = FsOps(req, files, io),
                     !.logged = Logged(req, files, io)]
    ELSE [req EXCEPT !.status = "resolved", !.value = req.outputPath,
                     !.fsOps = FsOps(req, files, io),
                     !.logged = Logged(req, files, io)]

\* lines 132-135, 150: how the callback settles the promise
Settled(req, files, io) ==
    IF req.proc = "exit1"
    THEN [req EXCEPT !.status = "rejected",
                     !.error = [msg |-> FfmpegFailedMsg, stderr |-> req.stderr],
                     !.fsOps = FsOps(req, files, io),
                     !.logged = Logged(req, files, io)]
    ELSE [req EXCEPT !.status = "resolved", !.value = req.outputPath,
                     !.fsOps = FsOps(req, files, io),
                     !.logged = Logged(req, files, io)]

ExecCallback(r, io) ==
    /\ r \in 1..Len(reqs)
    /\ reqs[r].status = "pending"
    /\ reqs[r].proc \in {"exit0", "exit1"}
    /\ reqs' = [reqs EXCEPT ![r] = Settled(reqs[r], tmp, io)]
    /\ tmp' = CleanedFiles(reqs[r], tmp, io)
    /\ UNCHANGED <<now, app, platform, sweeps, probes, nvars, bvars, tvars>>

(***************************************************************************)
(* cleanupTempFiles (lines 29-41).                                         *)
(***************************************************************************)
NewSweep(trigger, appAt) ==
    [trigger |-> trigger, appAt |-> appAt, phase |-> "readdir", listed |-> {},
     pending |-> {}, deleted |-> {}, failed |-> {}]

SweepTargetIncludes(file) == Includes(file, Marker)

\* line 34
IsSweepTarget(file) == StartsWith(file, Marker)

\* lines 33-39: the entries the readdir callback issues an unlink for
UnlinkTargets(files) == {f \in files : IsSweepTarget(f)}

\* the readdir callback with a listing: the whole loop of lines 33-39 runs in
\* one turn and issues every unlink
SweepCallback(s) ==
    /\ s \in 1..Len(sweeps)
    /\ sweeps[s].phase = "readdir"
    /\ sweeps' = [sweeps EXCEPT ![s].phase = "issued",
                                ![s].listed = DOMAIN tmp,
                                ![s].pending = UnlinkTargets(DOMAIN tmp)]
    /\ UNCHANGED <<now, app, platform, tmp, reqs, probes, nvars, bvars, tvars>>

\* the readdir callback with an error: it logs and returns (line 32)
SweepListError(s) ==
    /\ s \in 1..Len(sweeps)
    /\ sweeps[s].phase = "readdir"
    /\ sweeps' = [sweeps EXCEPT ![s].phase = "error"]
    /\ UNCHANGED <<now, app, platform, tmp, reqs, probes, nvars, bvars, tvars>>

AfterUnlinkAbortOnFailure(sw, f, ok) ==
    IF ok THEN [sw EXCEPT !.pending = @ \ {f}, !.deleted = @ \cup {f}]
    ELSE [sw EXCEPT !.pending = {}, !.failed = @ \cup {f}]

\* lines 35-37: one unlink completes; a failure is logged, nothing else
AfterUnlink(sw, f, ok) ==
    IF ok THEN [sw EXCEPT !.pending = @ \ {f}, !.deleted = @ \cup {f}]
    ELSE [sw EXCEPT !.pending = @ \ {f}, !.failed = @ \cup {f}]

\* an unlink of a missing entry fails (ENOENT); any other may fail too
UnlinkDone(s, f, fails) ==
    /\ s \in 1..Len(sweeps)
    /\ f \in sweeps[s].pending
    /\ LET ok == f \in DOMAIN tmp /\ ~fails
       IN  /\ sweeps' = [sweeps EXCEPT ![s] = AfterUnlink(sweeps[s], f, ok)]
           /\ tmp' = IF ok THEN Remove(tmp, f) ELSE tmp
    /\ UNCHANGED <<now, app, platform, reqs, probes, nvars, bvars, tvars>>

(***************************************************************************)
(* The 'analyze-file' handler (lines 95-107).  The output of ffprobe is    *)
(* modelled after the lexer: a sequence of JSON tokens.                    *)
(***************************************************************************)
Tok(t) == [t |-> t, v |-> ""]
Str(s) == [t |-> "str", v |-> s]
Num(n) == [t |-> "num", v |-> n]

SyntaxError == [kind |-> "SyntaxError"]
ParseFail == [ok |-> FALSE, value |-> SyntaxError, rest |-> <<>>]

RECURSIVE ParseValue(_)
RECURSIVE ParseElements(_, _)
RECURSIVE ParseMembers(_, _)

\* JSON.parse: the elements of an array after '[', up to its ']'
ParseElements(ts, acc) ==
    LET r == ParseValue(ts)
    IN  IF ~r.ok \/ r.rest = <<>> THEN ParseFail
        ELSE IF r.rest[1].t = "," THEN ParseElements(Tail(r.rest), Append(acc, r.value))
        ELSE IF r.rest[1].t = "]"
             THEN [ok |-> TRUE, value |-> [kind |-> "array", items |-> Append(acc, r.value)],
                   rest |-> Tail(r.rest)]
        ELSE ParseFail

\* JSON.parse: the members of an object after '{', up to its '}'
ParseMembers(ts, acc) ==
    IF Len(ts) < 3 \/ ts[1].t # "str" \/ ts[2].t # ":" THEN ParseFail
    ELSE LET r == ParseValue(SubSeq(ts, 3, Len(ts)))
             member == [key |-> ts[1].v, value |-> r.value]
         IN  IF ~r.ok \/ r.rest = <<>> THEN ParseFail
             ELSE IF r.rest[1].t = "," THEN ParseMembers(Tail(r.rest), Append(acc, member))
             ELSE IF r.rest[1].t = "}"
                  THEN [ok |-> TRUE,
                        value |-> [kind |-> "object", members |-> Append(acc, member)],
                        rest |-> Tail(r.rest)]
             ELSE ParseFail

\* JSON.parse: one value at the head of the tokens
ParseValue(ts) ==
    IF ts = <<>> THEN ParseFail
    ELSE IF ts[1].t = "str"
         THEN [ok |-> TRUE, value |-> [kind |-> "string", str |-> ts[1].v], rest |-> Tail(ts)]
    ELSE IF ts[1].t = "num"
         THEN [ok |-> TRUE, value |-> [kind |-> "number", num |-> ts[1].v], rest |-> Tail(ts)]
    ELSE IF ts[1].t = "["
         THEN IF Len(ts) >= 2 /\ ts[2].t = "]"
              THEN [ok |-> TRUE, value |-> [kind |-> "array", items |-> <<>>],
                    rest |-> SubSeq(ts, 3, Len(ts))]
              ELSE ParseElements(Tail(ts), <<>>)
    ELSE IF ts[1].t = "{"
         THEN IF Len(ts) >= 2 /\ ts[2].t = "}"
              THEN [ok |-> TRUE, value |-> [kind |-> "object", members |-> <<>>],
                    rest |-> SubSeq(ts, 3, Len(ts))]
              ELSE ParseMembers(Tail(ts), <<>>)
    ELSE ParseFail

\* line 104: JSON.parse(stdout); the whole text must be one value
JsonParse(ts) ==
    LET r == ParseValue(ts)
    IN  IF r.ok /\ r.rest = <<>> THEN r.value ELSE SyntaxError

\* what ffprobe can have written to stdout when it exits
OneStream ==
    <<Tok("{"), Str("streams"), Tok(":"), Tok("["),
      Tok("{"), Str("index"), Tok(":"), Num(0), Tok(","),
      Str("codec_type"), Tok(":"), Str("audio"), Tok("}"),
      Tok("]"), Tok("}")>>
Truncated == SubSeq(OneStream, 1, 9)
EmptyObject == <<Tok("{"), Tok("}")>>
NoOutput == <<>>
ProbeOutputs == {OneStream, Truncated, EmptyObject, NoOutput}

\* line 101
ProbeHint == "FFprobe could not analyze the file. Is FFmpeg installed and in your PATH?"
\* line 100
ProbeErrorLog == "ffprobe error"

NoInfo == [kind |-> "none"]

\* line 96
ProbeCommand(filePath) ==
    [program |-> "ffprobe", options |-> <<"-v", "quiet", "-print_format", "json", "-show_streams">>,
     input |-> filePath]

\* lines 95-98: the handler builds the command, starts it and returns a promise
NewProbe(filePath) ==
    [filePath |-> filePath, command |-> ProbeCommand(filePath),
     proc |-> "running", stdout |-> NoOutput, called |-> FALSE,
     status |-> "pending", valuePath |-> "", info |-> NoInfo, error |-> "",
     logged |-> {}, uncaught |-> "none"]

AnalyzeFile(filePath) ==
    /\ app = "running"
    /\ probes' = Append(probes, NewProbe(filePath))
    /\ UNCHANGED <<now, app, platform, tmp, reqs, sweeps, nvars, bvars, tvars>>

\* the shell cannot start ffprobe: exec reports an error, nothing on stdout
FfprobeLaunchFail(p) ==
    /\ probes[p].proc = "running"
    /\ probes' = [probes EXCEPT ![p].proc = "launch-failed"]
    /\ UNCHANGED <<now, app, platform, tmp, reqs, sweeps, nvars, bvars, tvars>>

\* ffprobe exits non-zero; with -print_format json it has written an empty object
FfprobeFail(p) ==
    /\ probes[p].proc = "running"
    /\ probes' = [probes EXCEPT ![p].proc = "exit1", ![p].stdout = EmptyObject]
    /\ UNCHANGED <<now, app, platform, tmp, reqs, sweeps, nvars, bvars, tvars>>

\* ffprobe exits with 0
FfprobeSucceed(p, out) ==
    /\ probes[p].proc = "running"
    /\ probes' = [probes EXCEPT ![p].proc = "exit0", ![p].stdout = out]
    /\ UNCHANGED <<now, app, platform, tmp, reqs, sweeps, nvars, bvars, tvars>>

ProbeSettledParseFirst(pr) ==
    IF JsonParse(pr.stdout).kind = "SyntaxError"
    THEN [pr EXCEPT !.called = TRUE, !.status = "rejected", !.error = ProbeHint,
                    !.logged = {ProbeErrorLog}]
    ELSE [pr EXCEPT !.called = TRUE, !.status = "resolved", !.valuePath = pr.filePath,
                    !.info = JsonParse(pr.stdout)]

\* lines 98-105: the exec callback.  An exception thrown by JSON.parse leaves
\* the callback before resolve is called: it is raised in the main process
\* and the promise stays pending
ProbeSettled(pr) ==
    IF pr.proc # "exit0"
    THEN [pr EXCEPT !.called = TRUE, !.status = "rejected", !.error = ProbeHint,
                    !.logged = {ProbeErrorLog}]
    ELSE IF JsonParse(pr.stdout).kind = "SyntaxError"
    THEN [pr EXCEPT !.called = TRUE, !.uncaught = "SyntaxError"]
    ELSE [pr EXCEPT !.called = TRUE, !.status = "resolved", !.valuePath = pr.filePath,
                    !.info = JsonParse(pr.stdout)]

ProbeCallback(p) ==
    /\ probes[p].proc # "running"
    /\ ~probes[p].called
    /\ probes' = [probes EXCEPT ![p] = ProbeSettled(probes[p])]
    /\ UNCHANGED <<now, app, platform, tmp, reqs, sweeps, nvars, bvars, tvars>>

(***************************************************************************)
(* Application lifecycle (lines 65-76).                                    *)
(***************************************************************************)
\* The handlers act on the lifecycle state and the list of sweeps; a sweep
\* records the lifecycle state cleanupTempFiles was called in: "launching"
\* (no window yet), "closed" (no window left, quit not requested), ...

\* line 29: cleanupTempFiles() issues the readdir and returns
CleanupTempFiles(st, trigger) ==
    [st EXCEPT !.sweeps = Append(@, NewSweep(trigger, st.app))]

\* lines 43-63
CreateWindow(st) == [st EXCEPT !.app = "running"]

OnReadyWindowFirst(st) == CleanupTempFiles(CreateWindow(st), "ready")

\* lines 65-71: cleanupTempFiles(), then createWindow()
OnReady(st) == CreateWindow(CleanupTempFiles(st, "ready"))

\* lines 73-76: cleanupTempFiles(), then app.quit() unless on darwin
OnWindowAllClosed(st, plat) ==
    LET swept == CleanupTempFiles(st, "window-all-closed")
    IN  IF plat # "darwin" THEN [swept EXCEPT !.app = "quit"] ELSE swept

\* app.whenReady() is fulfilled
AppReady ==
    /\ app = "launching"
    /\ LET st == OnReady([app |-> app, sweeps |-> sweeps])
       IN  app' = st.app /\ sweeps' = st.sweeps
    /\ UNCHANGED <<now, platform, tmp, reqs, probes, nvars, bvars, tvars>>

\* the last window is closed and 'window-all-closed' is emitted
WindowAllClosed ==
    /\ app = "running"
    /\ Len(sweeps) < MaxSweeps
    /\ LET st == OnWindowAllClosed([app |-> "closed", sweeps |-> sweeps], platform)
       IN  app' = st.app /\ sweeps' = st.sweeps
    /\ UNCHANGED <<now, platform, tmp, reqs, probes, nvars, bvars, tvars>>

\* 'activate' with no window: createWindow()
Activate ==
    /\ app = "closed"
    /\ app' = "running"
    /\ UNCHANGED <<now, platform, tmp, reqs, sweeps, probes, nvars, bvars, tvars>>

(***************************************************************************)
(* Interactive mode: specifications.                                       *)
(*   Spec         a whole application run: launch, window sessions,        *)
(*                window-all-closed, with the sweeps and requests of it    *)
(*   SpecSession  the first window session: the startup sweep and the      *)
(*                requests of the session, the window staying open         *)
(***************************************************************************)
\* the variables of the other modes, at rest
NormIdle == vttIn = <<>> /\ vtt = <<>> /\ passes = 0
TrackerIdle ==
    /\ subjects = <<>> /\ selectedSubjectId = 0 /\ clock = 0 /\ detail = <<>>
ProIdle ==
    /\ proSubjects = <<>> /\ proSelected = 0 /\ timetable = <<>> /\ timeSlots = <<>>
    /\ attendanceRecords = <<>> /\ proClock = 0
BatchIdle == srvNow = 0 /\ uploads = <<>> /\ processed = {}
AppIdle ==
    /\ now = 0 /\ app = "launching" /\ platform = "linux"
    /\ tmp = <<>> /\ reqs = <<>> /\ sweeps = <<>> /\ probes = <<>>

Init ==
    /\ NormIdle /\ BatchIdle /\ TrackerIdle /\ ProIdle
    /\ now = MaxClock - 1
    /\ app = "launching"
    /\ platform \in {"darwin", "linux"}
    /\ tmp \in {[n \in S |-> OldData] : S \in SUBSET InitialEntries}
    /\ reqs = <<>>
    /\ sweeps = <<>>
    /\ probes = <<>>

InitSession ==
    /\ Init
    /\ platform = "linux"
    /\ DOMAIN tmp = InitialEntries

\* what the subprocesses, the thread pool and the callbacks do
Background ==
    \/ \E r \in 1..Len(reqs) : FfmpegOpen(r)
    \/ \E r \in 1..Len(reqs) : FfmpegLaunchFail(r)
    \/ \E r \in 1..Len(reqs) : FfmpegFail(r)
    \/ \E r \in 1..Len(reqs) : \E c \in OutputContents(reqs[r].stream) : FfmpegSucceed(r, c)
    \/ \E r \in 1..Len(reqs), io \in IoOutcomes : ExecCallback(r, io)
    \/ \E s \in 1..Len(sweeps) : SweepListError(s)
    \/ \E s \in 1..Len(sweeps) : SweepCallback(s)
    \/ \E s \in 1..Len(sweeps) : \E f \in sweeps[s].pending, fails \in BOOLEAN : UnlinkDone(s, f, fails)

Next ==
    \/ AppReady
    \/ WindowAllClosed
    \/ Activate
    \/ \E fp \in FilePaths, st \in StreamPool, t \in now..MaxClock :
          Len(reqs) < MaxLifecycleReqs /\ ExtractStream(fp, st, t)
    \/ Background

NextSession ==
    \/ AppReady
    \/ \E fp \in FilePaths, st \in StreamPool, t \in now..MaxClock :
          Len(reqs) < MaxReqs /\ ExtractStream(fp, st, t)
    \/ Background

Spec == Init /\ [][Next]_vars

\* one file orphaned by an earlier run is in the temp directory
InitApp ==
    /\ Init
    /\ DOMAIN tmp = {Orphan}

\* what the ffprobe subprocesses and their callbacks do
ProbeBackground ==
    \/ \E p \in 1..Len(probes) : FfprobeLaunchFail(p)
    \/ \E p \in 1..Len(probes) : FfprobeFail(p)
    \/ \E p \in 1..Len(probes) : \E out \in ProbeOutputs : FfprobeSucceed(p, out)
    \/ \E p \in 1..Len(probes) : ProbeCallback(p)

NextApp ==
    \/ AppReady
    \/ WindowAllClosed
    \/ Activate
    \/ \E st \in StreamPool :
          Len(reqs) < MaxLifecycleReqs /\ ExtractStream("a.mkv", st, now)
    \/ Background
    \/ \E fp \in FilePaths : Len(probes) < MaxProbes /\ AnalyzeFile(fp)
    \/ ProbeBackground

SpecApp == InitApp /\ [][NextApp]_vars

SpecSession == InitSession /\ [][NextSession]_vars

(***************************************************************************)
(* Claims about the interactive mode.                                      *)
(***************************************************************************)
Supported(r) == reqs[r].outputPath # <<>>

\* C1: any two 'extract-stream' requests that are given an output path are
\* given different output paths.
C1_DistinctOutputPaths ==
    \A i, j \in 1..Len(reqs) :
        (i < j /\ Supported(i) /\ Supported(j)) => reqs[i].outputPath # reqs[j].outputPath

\* C2: when a request resolves with an output path, the temp directory holds
\* the file of that path at that moment, whatever a sweep did in between.
C2_ResolvedFileExists ==
    [][\A r \in 1..Len(reqs) :
          (reqs[r].status = "pending" /\ reqs'[r].status = "resolved")
              => FileOf(reqs'[r].value) \in DOMAIN tmp']_vars

\* C3: a sweep whose readdir callback has run has issued an unlink for exactly
\* the listed entries that start with 'mx-player-'; a listed entry that does
\* not start with the marker is still there, with its content.
C3_SweepSelectivity ==
    \A s \in 1..Len(sweeps) :
        sweeps[s].phase = "issued" =>
            /\ sweeps[s].pending \cup sweeps[s].deleted \cup sweeps[s].failed
                   = {f \in sweeps[s].listed : StartsWith(f, Marker)}
            /\ \A f \in sweeps[s].listed :
                   ~StartsWith(f, Marker) => (f \in DOMAIN tmp /\ tmp[f] = OldData)

C3_Witness ==
    \E s \in 1..Len(sweeps) :
        /\ sweeps[s].phase = "issued"
        /\ sweeps[s].pending = {}
        /\ {Unrelated, Embedded, Orphan} \subseteq sweeps[s].listed
        /\ Orphan \in sweeps[s].deleted
        /\ Orphan \notin DOMAIN tmp
        /\ \E r \in 1..Len(reqs) :
               Supported(r) /\ FileOf(reqs[r].outputPath) \in sweeps[s].deleted

\* C4: once a sweep has had an unlink fail, every other listed entry that
\* starts with the marker still has its unlink in flight or completed.
C4_SweepSurvivesDeleteFailure ==
    \A s \in 1..Len(sweeps) :
        sweeps[s].failed # {} =>
            \A f \in sweeps[s].listed :
                StartsWith(f, Marker) =>
                    f \in sweeps[s].pending \cup sweeps[s].deleted \cup sweeps[s].failed

C4_Witness ==
    \E s \in 1..Len(sweeps) :
        /\ sweeps[s].pending = {}
        /\ Orphan \in sweeps[s].failed
        /\ Orphan \in DOMAIN tmp
        /\ \E f \in sweeps[s].deleted : f # Orphan /\ f \notin DOMAIN tmp

\* C5: the command of an audio request selects '-c:a copy' exactly when
\* codec_name is 'aac' and '-c:a aac' otherwise, maps the stream index of the
\* request, reads the request's file and writes to the allocated '.aac' path.
C5_AudioCopyOrTranscode ==
    \A r \in 1..Len(reqs) :
        reqs[r].stream.codec_type = "audio" =>
            /\ reqs[r].command.codecOpt = "-c:a"
            /\ reqs[r].command.codec \in {"copy", "aac"}
            /\ reqs[r].command.codec = "copy" <=> reqs[r].stream.codec_name = "aac"
            /\ reqs[r].command.map = reqs[r].stream.index
            /\ reqs[r].command.input = reqs[r].filePath
            /\ reqs[r].command.output = reqs[r].outputPath
            /\ StartsWith(reqs[r].outputPath, TempDir \o <<"/">> \o Marker)
            /\ EndsWith(reqs[r].outputPath, AacExt)

C5_Witness ==
    \E i, j \in 1..Len(reqs) :
        /\ reqs[i].stream.codec_type = "audio" /\ reqs[i].stream.codec_name = "aac"
        /\ reqs[i].command.codec = "copy"
        /\ reqs[j].stream.codec_type = "audio" /\ reqs[j].stream.codec_name = "AAC"
        /\ reqs[j].command.codec = "aac"

\* C7: the command of a subtitle request selects '-c:s webvtt' whatever the
\* codec_name, maps the stream index of the request and writes to the
\* allocated '.vtt' path.
C7_SubtitleAlwaysWebvtt ==
    \A r \in 1..Len(reqs) :
        reqs[r].stream.codec_type = "subtitle" =>
            /\ reqs[r].command.codecOpt = "-c:s"
            /\ reqs[r].command.codec = "webvtt"
            /\ reqs[r].command.map = reqs[r].stream.index
            /\ reqs[r].command.input = reqs[r].filePath
            /\ reqs[r].command.output = reqs[r].outputPath
            /\ StartsWith(reqs[r].outputPath, TempDir \o <<"/">> \o Marker)
            /\ EndsWith(reqs[r].outputPath, VttExt)

C7_Witness ==
    \E i, j \in 1..Len(reqs) :
        /\ reqs[i].stream.codec_type = "subtitle" /\ reqs[i].stream.codec_name = "webvtt"
        /\ reqs[j].stream.codec_type = "subtitle" /\ reqs[j].stream.codec_name = "subrip"
        /\ reqs[i].proc = "exit0" /\ reqs[j].proc = "exit0"

\* C8: a request whose codec_type is neither 'audio' nor 'subtitle' is
\* rejected with the unsupported-stream-type message; it has no command, no
\* subprocess, no output path, and the handler does no file operation for it.
C8_UnsupportedRejected ==
    \A r \in 1..Len(reqs) :
        reqs[r].stream.codec_type \notin {"audio", "subtitle"} =>
            /\ reqs[r].status = "rejected"
            /\ reqs[r].error = [msg |-> UnsupportedMsg, stderr |-> ""]
            /\ reqs[r].command = NoCommand
            /\ reqs[r].proc = "none"
            /\ reqs[r].outputPath = <<>>
            /\ reqs[r].value = <<>>
            /\ reqs[r].fsOps = {}

C8_Witness ==
    \E i, j \in 1..Len(reqs) :
        /\ reqs[i].stream.codec_type = "Audio" /\ reqs[i].status = "rejected"
        /\ reqs[j].stream.codec_type = Missing /\ reqs[j].status = "rejected"

\* C9: the callback of a request whose subprocess failed rejects it with the
\* extraction error carrying the subprocess's stderr, resolves nothing, does
\* no file operation and leaves the temp directory as it is; a rejected
\* request stays rejected.
C9_FailureRejectsAndLeavesFile ==
    [][\A r \in 1..Len(reqs) :
          /\ (reqs[r].proc = "exit1" /\ reqs[r].status = "pending"
                  /\ reqs'[r].status # "pending")
                => /\ reqs'[r].status = "rejected"
                   /\ reqs'[r].error = [msg |-> FfmpegFailedMsg, stderr |-> reqs[r].stderr]
                   /\ reqs'[r].value = <<>>
                   /\ reqs'[r].fsOps = {}
                   /\ tmp' = tmp
          /\ reqs[r].status = "rejected" => reqs'[r] = reqs[r]]_vars

C9_Witness ==
    \E i, j \in 1..Len(reqs) :
        /\ reqs[i].status = "rejected" /\ reqs[i].error.msg = FfmpegFailedMsg
        /\ reqs[i].error.stderr = ExitStderr
        /\ reqs[i].stream.codec_type = "subtitle"
        /\ FileOf(reqs[i].outputPath) \in DOMAIN tmp
        /\ tmp[FileOf(reqs[i].outputPath)] = Partial
        /\ reqs[j].status = "rejected" /\ reqs[j].error.stderr = LaunchStderr

\* C13: a subtitle request whose subprocess ended well and whose clean-up
\* threw (the read or the write of the output file failed) is resolved with
\* its output path, not rejected; the failure is logged and nothing else.
C13_CleanUpFailureNonFatal ==
    \A r \in 1..Len(reqs) :
        CleanFailedLog \in reqs[r].logged =>
            /\ reqs[r].status = "resolved"
            /\ reqs[r].value = reqs[r].outputPath
            /\ reqs[r].error = NoError
            /\ reqs[r].logged = {CleanFailedLog}

C13_Witness ==
    \E i, j \in 1..Len(reqs) :
        /\ reqs[i].logged = {CleanFailedLog} /\ reqs[i].fsOps = {"read"}
        /\ reqs[i].status = "resolved"
        /\ FileOf(reqs[i].outputPath) \notin DOMAIN tmp
        /\ reqs[j].logged = {CleanFailedLog} /\ reqs[j].fsOps = {"read", "write"}
        /\ reqs[j].status = "resolved"
        /\ FileOf(reqs[j].outputPath) \in DOMAIN tmp
        /\ tmp[FileOf(reqs[j].outputPath)] = Partial

\* C16: an 'analyze-file' request whose ffprobe could not be launched or
\* exited non-zero is never resolved and carries no stream information; once
\* its callback has run it is rejected with the hint, and nothing is raised
\* outside the request.
C16_ProbeToolErrorRejects ==
    \A p \in 1..Len(probes) :
        probes[p].proc \in {"exit1", "launch-failed"} =>
            /\ probes[p].status \in {"pending", "rejected"}
            /\ probes[p].info = NoInfo /\ probes[p].valuePath = ""
            /\ probes[p].uncaught = "none"
            /\ probes[p].called <=> probes[p].status = "rejected"
            /\ probes[p].called => probes[p].error = ProbeHint

C16_Witness ==
    \E p \in 1..Len(probes) :
        /\ probes[p].proc = "exit1" /\ probes[p].stdout = EmptyObject
        /\ probes[p].called /\ probes[p].status = "rejected"
        /\ probes[p].error = ProbeHint

\* C17: an 'analyze-file' request whose ffprobe exited with 0 and wrote
\* malformed output is rejected by its callback, and the parse error is not
\* raised outside the request.
C17_MalformedOutputRejects ==
    \A p \in 1..Len(probes) :
        (probes[p].called /\ probes[p].proc = "exit0"
            /\ JsonParse(probes[p].stdout) = SyntaxError) =>
                /\ probes[p].status = "rejected"
                /\ probes[p].uncaught = "none"

\* the steps in which a sweep may start
ReadyStep == app = "launching" /\ app' # "launching"
AllClosedStep == app = "running" /\ app' \in {"closed", "quit"}

\* C19: a sweep is started in the step that makes the application ready,
\* before the window exists, and in each step that closes the last window,
\* before quit is requested; no other step starts a sweep, in particular none
\* that adds or settles an 'analyze-file' or 'extract-stream' request.
C19_SweepPoints ==
    [][/\ Len(sweeps') = Len(sweeps) + (IF ReadyStep \/ AllClosedStep THEN 1 ELSE 0)
       /\ \A i \in 1..Len(sweeps) :
              /\ sweeps'[i].trigger = sweeps[i].trigger
              /\ sweeps'[i].appAt = sweeps[i].appAt
       /\ ReadyStep =>
              /\ sweeps'[Len(sweeps')].trigger = "ready"
              /\ sweeps'[Len(sweeps')].appAt = "launching"
              /\ sweeps = <<>>
       /\ AllClosedStep =>
              /\ sweeps'[Len(sweeps')].trigger = "window-all-closed"
              /\ sweeps'[Len(sweeps')].appAt = "closed"
       /\ (reqs' # reqs \/ probes' # probes) => Len(sweeps') = Len(sweeps)
      ]_vars

\* a run with both sweeps, both kinds of request and a re-opened window
C19_Witness ==
    /\ Len(sweeps) = 2
    /\ sweeps[1].trigger = "ready" /\ sweeps[1].appAt = "launching"
    /\ sweeps[2].trigger = "window-all-closed" /\ sweeps[2].appAt = "closed"
    /\ app = "running"
    /\ Len(reqs) = 1 /\ reqs[1].status # "pending"
    /\ Len(probes) = 1 /\ probes[1].called

(***************************************************************************)
(* The subtitle clean-up alone: every file content made of at most         *)
(* MaxPieces pieces is cleaned up, and cleaned up again.                   *)
(***************************************************************************)
Pieces ==
    { <<NL>>, <<Quote>>, <<"a">>, <<" ">>, <<"7">>, <<"\r">>, Arrow, Header }

RECURSIVE Flatten(_)
Flatten(ps) == IF Len(ps) = 0 THEN <<>> ELSE ps[1] \o Flatten(Tail(ps))

Contents == UNION {{Flatten(ps) : ps \in [1..n -> Pieces]} : n \in 0..MaxPieces}

InitNorm ==
    /\ AppIdle /\ BatchIdle /\ TrackerIdle /\ ProIdle
    /\ vtt \in Contents
    /\ vttIn = vtt
    /\ passes = 0

\* lines 138-145: read the file, clean it up, write it back
CleanUp ==
    /\ passes < MaxPasses
    /\ vttIn' = vtt
    /\ vtt' = CleanContent(vtt)
    /\ passes' = passes + 1
    /\ UNCHANGED <<ivars, bvars, tvars>>

NextNorm == CleanUp

SpecNorm == InitNorm /\ [][NextNorm]_vars

NoQuotes(line) == SelectSeq(line, LAMBDA c : c # Quote)

\* C10: the content a clean-up writes has exactly as many lines as the content
\* it read, and its i-th line is the i-th line read, less some of its
\* double quotes at most.
C10_LineStructurePreserved ==
    passes > 0 =>
        LET in == SplitLines(vttIn)
            out == SplitLines(vtt)
        IN  /\ Len(out) = Len(in)
            /\ \A i \in 1..Len(in) :
                   i <= Len(out) =>
                       /\ NoQuotes(out[i]) = NoQuotes(in[i])
                       /\ Len(out[i]) <= Len(in[i])

C10_Witness ==
    /\ passes = 1
    /\ Len(SplitLines(vttIn)) = 3
    /\ SplitLines(vttIn)[2] = <<>>
    /\ vtt # vttIn

\* a line the clean-up must keep as it is: it contains '-->', consists only
\* of digits, is the header literal, or is empty
KeptLine(line) ==
    \/ \E i \in 1..Len(line) : i + 2 <= Len(line) /\ <<line[i], line[i + 1], line[i + 2]>> = Arrow
    \/ (Len(line) > 0 /\ \A i \in 1..Len(line) : line[i] \in DigitChars)
    \/ line = Header
    \/ line = <<>>

\* C11: a line that contains '-->', consists only of digits, is 'WEBVTT' or is
\* empty is written back as it was read; every other line is written back with
\* all its double quotes removed and its other characters as they were.
C11_PerLineTransformation ==
    passes > 0 =>
        LET in == SplitLines(vttIn)
            out == SplitLines(vtt)
        IN  /\ Len(out) = Len(in)
            /\ \A i \in 1..Len(in) :
                   i <= Len(out) =>
                       out[i] = IF KeptLine(in[i]) THEN in[i] ELSE NoQuotes(in[i])

C11_Witness ==
    /\ passes = 1
    /\ \E i, j \in 1..Len(SplitLines(vttIn)) :
           /\ Includes(SplitLines(vttIn)[i], Arrow)
           /\ Quote \in {SplitLines(vttIn)[i][k] : k \in 1..Len(SplitLines(vttIn)[i])}
           /\ SplitLines(vtt)[i] = SplitLines(vttIn)[i]
           /\ ~KeptLine(SplitLines(vttIn)[j])
           /\ SplitLines(vtt)[j] # SplitLines(vttIn)[j]

\* C12: cleaning up a cleaned-up content changes nothing.
C12_CleanUpIdempotent == passes >= 2 => vtt = vttIn

C12_Witness ==
    /\ passes = 2
    /\ Quote \in {vtt[k] : k \in 1..Len(vtt)}
    /\ \E j \in 1..Len(SplitLines(vtt)) : ~KeptLine(SplitLines(vtt)[j])

(***************************************************************************)
(* Batch mode: the /upload handler (lines 252-366).                        *)
(***************************************************************************)
Dirname == <<"/", "a", "p", "p">>                      \* __dirname
UploadsDir == PathJoin(Dirname, <<"u", "p", "l", "o", "a", "d", "s">>)
ProcessedRoot == PathJoin(Dirname, <<"p", "r", "o", "c", "e", "s", "s", "e", "d">>)

\* the index of the last '.' of a name, 0 if it has none
LastDot(s) ==
    IF \A i \in 1..Len(s) : s[i] # "." THEN 0
    ELSE CHOOSE i \in 1..Len(s) : s[i] = "." /\ \A j \in (i + 1)..Len(s) : s[j] # "."

\* path.extname
ExtName(s) == IF LastDot(s) <= 1 THEN <<>> ELSE SubSeq(s, LastDot(s), Len(s))

\* path.basename(name, path.extname(name))
BaseName(s) == SubSeq(s, 1, Len(s) - Len(ExtName(s)))

\* line 204: Date.now() + '-' + file.originalname
StoredName(t, originalname) == ToStr(t) \o <<"-">> \o originalname

\* lines 226-227
ProcessedDir(filename) == PathJoin(ProcessedRoot, BaseName(filename))

OriginalNames == { <<"m", ".", "m", "k", "v">>, <<"m", ".", "m", "p", "4">> }

NoTag == <<>>       \* a tag the stream does not have
Commentary == <<"C", "o", "m", "m", "e", "n", "t", "a", "r", "y">>
Eng == <<"e", "n", "g">>

St(type, name, idx, title, language) ==
    [codec_type |-> type, codec_name |-> name, index |-> idx,
     title |-> title, language |-> language]

\* what ffprobe can report for an uploaded file
Containers ==
    { <<St("video", "h264", 0, NoTag, NoTag), St("audio", "aac", 1, Commentary, Eng),
        St("audio", "mp3", 2, NoTag, NoTag), St("subtitle", "subrip", 3, NoTag, Eng)>>,
      <<St("data", "bin", 0, NoTag, NoTag), St("video", "hevc", 1, NoTag, NoTag),
        St("subtitle", "ass", 2, NoTag, NoTag), St("audio", "aac", 3, NoTag, NoTag),
        St("subtitle", "subrip", 4, Commentary, NoTag)>>,
      <<St("audio", "mp3", 0, NoTag, Eng)>>,
      <<>> }

OfType(streams, type) == SelectSeq(streams, LAMBDA st : st.codec_type = type)

\* `-map 0:${stream.index}`
MapOption(idx) == [flag |-> "-map", value |-> <<"0", ":">> \o ToStr(idx)]

\* lines 284-305: the video command
VideoCommand(inputFile, dir, streams) ==
    [input |-> inputFile, output |-> PathJoin(dir, <<"v", "i", "d", "e", "o", ".", "m", "p", "4">>),
     noAudio |-> TRUE, noVideo |-> FALSE, audioCodec |-> "", videoCodec |-> "copy",
     outputOptions |->
         IF Len(OfType(streams, "video")) > 0 /\ OfType(streams, "video")[1].codec_name = "h264"
         THEN <<[flag |-> "-c:v", value |-> <<"l", "i", "b", "x", "2", "6", "4">>]>>
         ELSE <<>>]

\* line 312: audio_${i}.aac, and line 331: sub_${i}.vtt (i counts from 0)
AudioFile(i) == <<"a", "u", "d", "i", "o", "_">> \o ToStr(i) \o AacExt
SubFile(i) == <<"s", "u", "b", "_">> \o ToStr(i) \o VttExt

\* line 317: .audioCodec('aac')
BatchAudioCodec(stream) == "aac"

\* lines 312-318: the command of the i-th audio stream (i counts from 0)
AudioCommand(inputFile, dir, stream, i) ==
    [input |-> inputFile, output |-> PathJoin(dir, AudioFile(i)),
     noAudio |-> FALSE, noVideo |-> TRUE, audioCodec |-> BatchAudioCodec(stream),
     videoCodec |-> "", outputOptions |-> <<MapOption(stream.index)>>]

\* lines 331-335: the command of the i-th subtitle stream (i counts from 0)
SubtitleCommand(inputFile, dir, stream, i) ==
    [input |-> inputFile, output |-> PathJoin(dir, SubFile(i)),
     noAudio |-> FALSE, noVideo |-> FALSE, audioCodec |-> "", videoCodec |-> "",
     outputOptions |-> <<MapOption(stream.index)>>]

LabelByStreamIndex(stream, kind, i) ==
    IF stream.title # <<>> THEN stream.title
    ELSE IF stream.language # <<>> THEN stream.language
    ELSE kind \o <<" ">> \o ToStr(stream.index + 1)

\* lines 325, 342: title, else language, else `${kind} ${i + 1}`
Label(stream, kind, i) ==
    IF stream.title # <<>> THEN stream.title
    ELSE IF stream.language # <<>> THEN stream.language
    ELSE kind \o <<" ">> \o ToStr(i + 1)

AudioKind == <<"A", "u", "d", "i", "o">>
SubtitleKind == <<"S", "u", "b", "t", "i", "t", "l", "e">>

\* lines 324, 341, 351: the urls of the manifest
UrlOf(baseName, file) ==
    <<"/", "p", "r", "o", "c", "e", "s", "s", "e", "d", "/">> \o baseName \o <<"/">> \o file

AudioJobsOneAtATime(inputFile, dir, streams) ==
    LET as == OfType(streams, "audio")
    IN  [i \in 1..(IF Len(as) > 0 THEN 1 ELSE 0) |->
            [stream |-> as[i], cmd |-> AudioCommand(inputFile, dir, as[i], i - 1),
             state |-> "running", ended |-> 0]]

\* lines 311-322: every audio extraction is started in the same turn
AudioJobs(inputFile, dir, streams) ==
    LET as == OfType(streams, "audio")
    IN  [i \in 1..Len(as) |->
            [stream |-> as[i], cmd |-> AudioCommand(inputFile, dir, as[i], i - 1),
             state |-> "running", ended |-> 0]]

\* lines 330-339: every subtitle extraction is started in the same turn
SubJobs(inputFile, dir, streams) ==
    LET ss == OfType(streams, "subtitle")
    IN  [i \in 1..Len(ss) |->
            [stream |-> ss[i], cmd |-> SubtitleCommand(inputFile, dir, ss[i], i - 1),
             state |-> "running", ended |-> 0]]

AudioTracksCompletionOrder(baseName, jobs) ==
    [i \in 1..Len(jobs) |->
        LET j == CHOOSE k \in 1..Len(jobs) : jobs[k].ended = i
        IN  [url |-> UrlOf(baseName, AudioFile(j - 1)),
             label |-> Label(jobs[j].stream, AudioKind, j - 1)]]

\* lines 323-326: the manifest entries of the audio streams, in their order
AudioTracks(baseName, jobs) ==
    [i \in 1..Len(jobs) |->
        [url |-> UrlOf(baseName, AudioFile(i - 1)),
         label |-> Label(jobs[i].stream, AudioKind, i - 1)]]

\* lines 340-343: the manifest entries of the subtitle streams, in their order
SubtitleTracks(baseName, jobs) ==
    [i \in 1..Len(jobs) |->
        [url |-> UrlOf(baseName, SubFile(i - 1)),
         label |-> Label(jobs[i].stream, SubtitleKind, i - 1)]]

NoResponse == [status |-> 0, keys |-> {}, videoUrl |-> <<>>, audioTracks |-> <<>>,
               subtitleTracks |-> <<>>, filename |-> <<>>, error |-> ""]

\* lines 349-355
SuccessResponse(up) ==
    [status |-> 200, keys |-> {"success", "videoUrl", "audioTracks", "subtitleTracks", "filename"},
     videoUrl |-> UrlOf(up.baseName, <<"v", "i", "d", "e", "o", ".", "m", "p", "4">>),
     audioTracks |-> AudioTracks(up.baseName, up.audioJobs),
     subtitleTracks |-> SubtitleTracks(up.baseName, up.subJobs),
     filename |-> up.originalname, error |-> ""]

\* lines 360-364
FailureResponse ==
    [NoResponse EXCEPT !.status = 500, !.keys = {"success", "error", "details"},
                       !.error = "Video processing failed"]

\* line 254
NoFileResponse ==
    [NoResponse EXCEPT !.status = 400, !.keys = {"error"}, !.error = "No file uploaded."]

\* lines 238-246: cleanupFiles(inputFile); an unlink that throws is only logged
CleanupFiles(up, deleteFails) ==
    [up EXCEPT !.inputExists = deleteFails,
               !.deleted = IF deleteFails THEN "failed" ELSE "ok"]

SucceededDeleteThrows(up, deleteFails) ==
    [CleanupFiles(up, deleteFails) EXCEPT
        !.pc = "done",
        !.response = IF deleteFails THEN FailureResponse ELSE SuccessResponse(up),
        !.responses = @ + 1]

\* lines 346-355: delete the uploaded file and answer with the manifest
Succeeded(up, deleteFails) ==
    [CleanupFiles(up, deleteFails) EXCEPT
        !.pc = "done", !.response = SuccessResponse(up), !.responses = @ + 1]

FailedWithPartialManifest(up, deleteFails) ==
    [CleanupFiles(up, deleteFails) EXCEPT
        !.pc = "done", !.response = SuccessResponse(up), !.responses = @ + 1]

\* lines 357-365: the catch block
Failed(up, deleteFails) ==
    [CleanupFiles(up, deleteFails) EXCEPT
        !.pc = "done", !.response = FailureResponse, !.responses = @ + 1]

AfterAudioNoJoin(up, deleteFails) ==
    Succeeded([up EXCEPT !.subJobs = SubJobs(up.inputFile, up.processedDir, up.streams)],
              deleteFails)

\* lines 329-355, entered when every audio extraction has ended well
AfterAudio(up, deleteFails) ==
    LET jobs == SubJobs(up.inputFile, up.processedDir, up.streams)
    IN  IF Len(jobs) = 0 THEN Succeeded(up, deleteFails)
        ELSE [up EXCEPT !.pc = "subs", !.subJobs = jobs]

AfterVideoBothGroups(up, deleteFails) ==
    LET jobs == AudioJobs(up.inputFile, up.processedDir, up.streams)
    IN  IF Len(jobs) = 0 THEN AfterAudio(up, deleteFails)
        ELSE [up EXCEPT !.pc = "audio", !.audioJobs = jobs,
                        !.subJobs = SubJobs(up.inputFile, up.processedDir, up.streams)]

\* lines 310-327, entered when the video extraction has ended well
AfterVideo(up, deleteFails) ==
    LET jobs == AudioJobs(up.inputFile, up.processedDir, up.streams)
    IN  IF Len(jobs) = 0 THEN AfterAudio(up, deleteFails)
        ELSE [up EXCEPT !.pc = "audio", !.audioJobs = jobs]

\* lines 257-267: multer has stored the file; the handler starts ffprobe
NewUpload(originalname, t, container) ==
    [originalname |-> originalname,
     filename |-> StoredName(t, originalname),
     inputFile |-> PathJoin(UploadsDir, StoredName(t, originalname)),
     inputExists |-> TRUE, deleted |-> "no",
     baseName |-> BaseName(StoredName(t, originalname)),
     processedDir |-> ProcessedDir(StoredName(t, originalname)),
     container |-> container,
     pc |-> "probe", probe |-> "running", streams |-> <<>>,
     videoCmd |-> VideoCommand(<<>>, <<>>, <<>>), video |-> "none",
     audioJobs |-> <<>>, subJobs |-> <<>>,
     response |-> NoResponse, responses |-> 0]

Upload(originalname, t, container) ==
    /\ Len(uploads) < MaxUploads
    /\ t >= srvNow
    /\ srvNow' = t
    /\ uploads' = Append(uploads, NewUpload(originalname, t, container))
    /\ UNCHANGED <<processed, ivars, nvars, tvars>>

\* lines 253-255: a request without a file
UploadNoFile ==
    /\ Len(uploads) < MaxUploads
    /\ uploads' = Append(uploads,
           [NewUpload(<<>>, srvNow, <<>>) EXCEPT
                !.filename = <<>>, !.inputFile = <<>>, !.inputExists = FALSE,
                !.baseName = <<>>, !.processedDir = <<>>,
                !.pc = "done", !.probe = "none",
                !.response = NoFileResponse, !.responses = 1])
    /\ UNCHANGED <<srvNow, processed, ivars, nvars, tvars>>

AfterProbeFanOut(up, deleteFails) ==
    IF Len(up.container) = 0 THEN Failed(up, deleteFails)
    ELSE [up EXCEPT !.pc = "video", !.streams = up.container, !.video = "running",
                    !.videoCmd = VideoCommand(up.inputFile, up.processedDir, up.container),
                    !.audioJobs = AudioJobs(up.inputFile, up.processedDir, up.container),
                    !.subJobs = SubJobs(up.inputFile, up.processedDir, up.container)]

\* lines 269-308, entered when ffprobe has answered: no stream is an error,
\* otherwise the video extraction is started and awaited
AfterProbe(up, deleteFails) ==
    IF Len(up.container) = 0 THEN Failed(up, deleteFails)
    ELSE [up EXCEPT !.pc = "video", !.streams = up.container, !.video = "running",
                    !.videoCmd = VideoCommand(up.inputFile, up.processedDir, up.container)]

\* lines 262-267: ffprobe ends
ProbeDone(u, ok, deleteFails) ==
    /\ u \in 1..Len(uploads)
    /\ uploads[u].pc = "probe"
    /\ LET up == [uploads[u] EXCEPT !.probe = IF ok THEN "ok" ELSE "err"]
       IN  uploads' = [uploads EXCEPT ![u] =
               IF ok THEN AfterProbe(up, deleteFails) ELSE Failed(up, deleteFails)]
    /\ UNCHANGED <<srvNow, processed, ivars, nvars, tvars>>

\* lines 294-301: the video extraction ends
VideoDone(u, ok, deleteFails) ==
    /\ u \in 1..Len(uploads)
    /\ uploads[u].pc = "video"
    /\ LET up == [uploads[u] EXCEPT !.video = IF ok THEN "ok" ELSE "err"]
       IN  uploads' = [uploads EXCEPT ![u] =
               IF ok THEN AfterVideo(up, deleteFails) ELSE Failed(up, deleteFails)]
    /\ processed' = IF ok THEN processed \cup {uploads[u].videoCmd.output} ELSE processed
    /\ UNCHANGED <<srvNow, ivars, nvars, tvars>>

AllOk(jobs) == \A i \in 1..Len(jobs) : jobs[i].state = "ok"

\* the place of an extraction that ends now among those of its group
EndOrdinal(jobs) == Cardinality({j \in 1..Len(jobs) : jobs[j].ended > 0}) + 1

\* lines 319-320: one audio extraction ends; Promise.all settles on the first
\* failure or when all have ended well
AudioJobDone(u, i, ok, deleteFails) ==
    /\ u \in 1..Len(uploads)
    /\ i \in 1..Len(uploads[u].audioJobs)
    /\ uploads[u].audioJobs[i].state = "running"
    /\ LET up == [uploads[u] EXCEPT !.audioJobs[i].state = IF ok THEN "ok" ELSE "err",
                                    !.audioJobs[i].ended = EndOrdinal(uploads[u].audioJobs)]
       IN  uploads' = [uploads EXCEPT ![u] =
               IF up.pc # "audio" THEN up
               ELSE IF ~ok THEN Failed(up, deleteFails)
               ELSE IF AllOk(up.audioJobs) THEN AfterAudio(up, deleteFails)
               ELSE up]
    /\ processed' = IF ok THEN processed \cup {uploads[u].audioJobs[i].cmd.output}
                    ELSE processed
    /\ UNCHANGED <<srvNow, ivars, nvars, tvars>>

\* lines 336-337: one subtitle extraction ends
SubJobDone(u, i, ok, deleteFails) ==
    /\ u \in 1..Len(uploads)
    /\ i \in 1..Len(uploads[u].subJobs)
    /\ uploads[u].subJobs[i].state = "running"
    /\ LET up == [uploads[u] EXCEPT !.subJobs[i].state = IF ok THEN "ok" ELSE "err",
                                    !.subJobs[i].ended = EndOrdinal(uploads[u].subJobs)]
       IN  uploads' = [uploads EXCEPT ![u] =
               IF up.pc # "subs" THEN up
               ELSE IF ~ok THEN Failed(up, deleteFails)
               ELSE IF AllOk(up.subJobs) THEN Succeeded(up, deleteFails)
               ELSE up]
    /\ processed' = IF ok THEN processed \cup {uploads[u].subJobs[i].cmd.output}
                    ELSE processed
    /\ UNCHANGED <<srvNow, ivars, nvars, tvars>>

InitBatch ==
    /\ AppIdle /\ NormIdle /\ TrackerIdle /\ ProIdle
    /\ srvNow = MaxClock - 1
    /\ uploads = <<>>
    /\ processed = {}

NextBatch ==
    \/ \E name \in OriginalNames, t \in srvNow..MaxClock, c \in Containers : Upload(name, t, c)
    \/ UploadNoFile
    \/ \E u \in 1..Len(uploads), ok \in BOOLEAN, df \in BOOLEAN : ProbeDone(u, ok, df)
    \/ \E u \in 1..Len(uploads), ok \in BOOLEAN, df \in BOOLEAN : VideoDone(u, ok, df)
    \/ \E u \in 1..Len(uploads) : \E i \in 1..Len(uploads[u].audioJobs), ok \in BOOLEAN, df \in BOOLEAN :
          AudioJobDone(u, i, ok, df)
    \/ \E u \in 1..Len(uploads) : \E i \in 1..Len(uploads[u].subJobs), ok \in BOOLEAN, df \in BOOLEAN :
          SubJobDone(u, i, ok, df)

SpecBatch == InitBatch /\ [][NextBatch]_vars

\* C6: in a batch request, an audio stream whose codec_name is 'aac' is
\* extracted with a stream copy, any other audio stream with the AAC encoder.
C6_BatchAudioCopyWhenAac ==
    \A u \in 1..Len(uploads) :
        \A i \in 1..Len(uploads[u].audioJobs) :
            LET job == uploads[u].audioJobs[i]
            IN  job.cmd.audioCodec = IF job.stream.codec_name = "aac" THEN "copy" ELSE "aac"

\* what went wrong in a batch request, if anything
BatchFailure(up) ==
    \/ up.probe = "err"
    \/ up.probe = "ok" /\ Len(up.container) = 0
    \/ up.video = "err"
    \/ \E i \in 1..Len(up.audioJobs) : up.audioJobs[i].state = "err"
    \/ \E i \in 1..Len(up.subJobs) : up.subJobs[i].state = "err"

ManifestKeys == {"videoUrl", "audioTracks", "subtitleTracks"}

\* C14: a batch request in which the probe, the video extraction or any audio
\* or subtitle extraction failed is answered with an error that carries no
\* part of the manifest; the manifest is sent only when the video and every
\* audio and subtitle stream of the file were extracted; at most one response
\* is ever sent, and exactly one once the handler has ended.
C14_BatchAllOrNothing ==
    \A u \in 1..Len(uploads) :
        LET up == uploads[u]
        IN  /\ up.responses <= 1
            /\ up.pc = "done" <=> up.responses = 1
            /\ up.responses = 0 => up.response = NoResponse
            /\ (up.pc = "done" /\ up.originalname # <<>> /\ BatchFailure(up)) =>
                   /\ up.response.status = 500
                   /\ up.response.keys \cap ManifestKeys = {}
                   /\ "success" \in up.response.keys
                   /\ up.response.videoUrl = <<>>
                   /\ up.response.audioTracks = <<>>
                   /\ up.response.subtitleTracks = <<>>
            /\ up.response.status = 200 =>
                   /\ up.probe = "ok" /\ up.video = "ok"
                   /\ Len(up.audioJobs) = Len(OfType(up.container, "audio"))
                   /\ Len(up.subJobs) = Len(OfType(up.container, "subtitle"))
                   /\ \A i \in 1..Len(up.audioJobs) : up.audioJobs[i].state = "ok"
                   /\ \A i \in 1..Len(up.subJobs) : up.subJobs[i].state = "ok"
                   /\ Len(up.response.audioTracks) = Len(up.audioJobs)
                   /\ Len(up.response.subtitleTracks) = Len(up.subJobs)

\* a request failed by its second audio extraction after the first had ended well
C14_Witness ==
    \E u \in 1..Len(uploads) :
          /\ uploads[u].pc = "done" /\ uploads[u].response.status = 500
          /\ Len(uploads[u].audioJobs) = 2
          /\ uploads[u].audioJobs[1].state = "ok"
          /\ uploads[u].audioJobs[2].state = "err"
          /\ uploads[u].video = "ok"

\* the label the claim expects for the stream at position n (from 1) of its kind
ExpectedLabel(stream, kind, n) ==
    IF stream.title # NoTag THEN stream.title
    ELSE IF stream.language # NoTag THEN stream.language
    ELSE kind \o <<" ">> \o ToStr(n)

\* C15: every entry of a manifest is labelled with the stream's title, else
\* its language, else 'Audio n' / 'Subtitle n' with n the position (from 1)
\* of the stream among the streams of its kind in the probed order.
C15_BatchLabelling ==
    \A u \in 1..Len(uploads) :
        uploads[u].response.status = 200 =>
            LET res == uploads[u].response
                as == OfType(uploads[u].container, "audio")
                ss == OfType(uploads[u].container, "subtitle")
            IN  /\ Len(res.audioTracks) = Len(as)
                /\ Len(res.subtitleTracks) = Len(ss)
                /\ \A n \in 1..Len(as) :
                       n <= Len(res.audioTracks) =>
                           res.audioTracks[n].label = ExpectedLabel(as[n], AudioKind, n)
                /\ \A n \in 1..Len(ss) :
                       n <= Len(res.subtitleTracks) =>
                           res.subtitleTracks[n].label = ExpectedLabel(ss[n], SubtitleKind, n)

\* a manifest with a title, a language and a positional label whose number is
\* not the stream's index
C15_Witness ==
    \E u \in 1..Len(uploads) :
        /\ uploads[u].response.status = 200
        /\ Len(uploads[u].response.audioTracks) = 2
        /\ Len(uploads[u].response.subtitleTracks) = 1
        /\ uploads[u].response.audioTracks[1].label = Commentary
        /\ uploads[u].response.audioTracks[2].label = <<"A", "u", "d", "i", "o", " ", "2">>
        /\ uploads[u].audioJobs[2].stream.index = 2
        /\ uploads[u].response.subtitleTracks[1].label = Eng

\* C20: an audio or subtitle extraction of a batch request exists only once
\* the video extraction of that request has ended well; a request whose video
\* extraction failed never has one.
C20_VideoFirst ==
    \A u \in 1..Len(uploads) :
        /\ (uploads[u].audioJobs # <<>> \/ uploads[u].subJobs # <<>>) => uploads[u].video = "ok"
        /\ uploads[u].video \in {"none", "running", "err"} =>
               uploads[u].audioJobs = <<>> /\ uploads[u].subJobs = <<>>

\* a request with audio and subtitle streams whose video extraction failed
C20_Witness ==
    \E u \in 1..Len(uploads) :
        /\ uploads[u].video = "err" /\ uploads[u].pc = "done"
        /\ Len(OfType(uploads[u].streams, "audio")) = 2
        /\ Len(OfType(uploads[u].streams, "subtitle")) = 1
        /\ uploads[u].audioJobs = <<>> /\ uploads[u].subJobs = <<>>

\* the paths a batch request has allocated so far: its directory's video.mp4
\* and the outputs of the commands it has built
AllocatedPaths(up) ==
    {PathJoin(up.processedDir, <<"v", "i", "d", "e", "o", ".", "m", "p", "4">>)}
        \cup {up.audioJobs[i].cmd.output : i \in 1..Len(up.audioJobs)}
        \cup {up.subJobs[i].cmd.output : i \in 1..Len(up.subJobs)}

\* C18: two batch requests that carry a file never share their directory or
\* any output path.
C18_BatchSessionsDisjoint ==
    \A u, v \in 1..Len(uploads) :
        (u # v /\ uploads[u].originalname # <<>> /\ uploads[v].originalname # <<>>) =>
            /\ uploads[u].processedDir # uploads[v].processedDir
            /\ AllocatedPaths(uploads[u]) \cap AllocatedPaths(uploads[v]) = {}

\* an extraction subprocess of the request is running
InFlight(up) ==
    \/ up.video = "running"
    \/ \E i \in 1..Len(up.audioJobs) : up.audioJobs[i].state = "running"
    \/ \E i \in 1..Len(up.subJobs) : up.subJobs[i].state = "running"

\* the request has an extraction for every audio and subtitle stream of the file
AllStarted(up) ==
    /\ Len(up.audioJobs) = Len(OfType(up.container, "audio"))
    /\ Len(up.subJobs) = Len(OfType(up.container, "subtitle"))

\* C21: the manifest of a batch request has been sent only if no extraction
\* of the request is in flight and the video, every audio and every subtitle
\* extraction has ended well.
C21_JoinBeforeManifest ==
    \A u \in 1..Len(uploads) :
        /\ InFlight(uploads[u]) => uploads[u].response.status # 200
        /\ uploads[u].response.status = 200 =>
               /\ uploads[u].video = "ok" /\ AllStarted(uploads[u])
               /\ \A i \in 1..Len(uploads[u].audioJobs) : uploads[u].audioJobs[i].ended > 0
               /\ \A i \in 1..Len(uploads[u].subJobs) : uploads[u].subJobs[i].ended > 0
               /\ ~BatchFailure(uploads[u])

C21_Witness ==
    \E u \in 1..Len(uploads) :
        /\ uploads[u].response.status = 200
        /\ Len(uploads[u].audioJobs) = 1 /\ Len(uploads[u].subJobs) = 2
        /\ uploads[u].subJobs[2].ended = 1

\* C22: the step that starts the audio group of a batch request starts an
\* extraction for every audio stream of the file, all running at once; the
\* step in which the video extraction ends well is that step; the same holds
\* for the subtitle group.
C22_FanOutWithinKind ==
    [][\A u \in 1..Len(uploads) :
          LET old == uploads[u]
              new == uploads'[u]
          IN  /\ (old.video # "ok" /\ new.video = "ok") =>
                     Len(new.audioJobs) = Len(OfType(new.container, "audio"))
              /\ (old.audioJobs = <<>> /\ new.audioJobs # <<>>) =>
                     /\ Len(new.audioJobs) = Len(OfType(new.container, "audio"))
                     /\ \A i \in 1..Len(new.audioJobs) : new.audioJobs[i].state = "running"
              /\ (old.subJobs = <<>> /\ new.subJobs # <<>>) =>
                     /\ Len(new.subJobs) = Len(OfType(new.container, "subtitle"))
                     /\ \A i \in 1..Len(new.subJobs) : new.subJobs[i].state = "running"
      ]_vars

\* one request with two audio extractions in flight, one with two subtitle
\* extractions in flight
C22_Witness ==
    \E u, v \in 1..Len(uploads) :
        /\ Len(uploads[u].audioJobs) = 2
        /\ \A i \in 1..2 : uploads[u].audioJobs[i].state = "running"
        /\ Len(uploads[v].subJobs) = 2
        /\ \A i \in 1..2 : uploads[v].subJobs[i].state = "running"

\* C23, as claimed: the subtitle group of a batch request does not wait for
\* the audio group; while audio extractions of a request with subtitle
\* streams are in flight and the request is being processed, its subtitle
\* extractions have been started.
C23_GroupsOverlap ==
    \A u \in 1..Len(uploads) :
        (/\ uploads[u].pc # "done"
         /\ \E i \in 1..Len(uploads[u].audioJobs) : uploads[u].audioJobs[i].state = "running"
         /\ Len(OfType(uploads[u].container, "subtitle")) > 0) =>
            uploads[u].subJobs # <<>>

\* C23, amended: the subtitle group of a batch request is started only when
\* every audio extraction of the request has ended well; an audio and a
\* subtitle extraction of one request are never in flight together.
C23_GroupsInSequence ==
    \A u \in 1..Len(uploads) :
        /\ uploads[u].subJobs # <<>> =>
               /\ Len(uploads[u].audioJobs) = Len(OfType(uploads[u].container, "audio"))
               /\ \A i \in 1..Len(uploads[u].audioJobs) : uploads[u].audioJobs[i].state = "ok"
        /\ ~(/\ \E i \in 1..Len(uploads[u].audioJobs) : uploads[u].audioJobs[i].state = "running"
             /\ \E j \in 1..Len(uploads[u].subJobs) : uploads[u].subJobs[j].state = "running")

\* one request waiting for its second audio extraction with no subtitle
\* extraction started, one whose subtitle extraction runs after both audio
\* extractions
C23_Witness ==
    \E u, v \in 1..Len(uploads) :
        /\ uploads[u].pc = "audio" /\ Len(uploads[u].audioJobs) = 2
        /\ uploads[u].audioJobs[1].state = "ok" /\ uploads[u].audioJobs[2].state = "running"
        /\ Len(OfType(uploads[u].container, "subtitle")) = 1 /\ uploads[u].subJobs = <<>>
        /\ uploads[v].pc = "subs" /\ Len(uploads[v].audioJobs) = 2
        /\ uploads[v].subJobs[1].state = "running"

\* C24: entry n of audioTracks (subtitleTracks) of a manifest carries the url
\* of the file written for the n-th audio (subtitle) stream of the probed
\* order and that stream's label, whatever the order the extractions ended in.
C24_ManifestOrder ==
    \A u \in 1..Len(uploads) :
        uploads[u].response.status = 200 =>
            LET up == uploads[u]
                as == OfType(up.container, "audio")
                ss == OfType(up.container, "subtitle")
            IN  /\ Len(up.response.audioTracks) = Len(as)
                /\ Len(up.response.subtitleTracks) = Len(ss)
                /\ AllStarted(up)
                /\ \A n \in 1..Len(as) :
                       /\ up.audioJobs[n].stream = as[n]
                       /\ up.audioJobs[n].cmd.output = PathJoin(up.processedDir, AudioFile(n - 1))
                       /\ up.audioJobs[n].cmd.outputOptions = <<MapOption(as[n].index)>>
                       /\ up.response.audioTracks[n].url = UrlOf(up.baseName, AudioFile(n - 1))
                       /\ up.response.audioTracks[n].label = ExpectedLabel(as[n], AudioKind, n)
                /\ \A n \in 1..Len(ss) :
                       /\ up.subJobs[n].stream = ss[n]
                       /\ up.subJobs[n].cmd.output = PathJoin(up.processedDir, SubFile(n - 1))
                       /\ up.subJobs[n].cmd.outputOptions = <<MapOption(ss[n].index)>>
                       /\ up.response.subtitleTracks[n].url = UrlOf(up.baseName, SubFile(n - 1))
                       /\ up.response.subtitleTracks[n].label = ExpectedLabel(ss[n], SubtitleKind, n)

\* a manifest of a request whose second audio extraction ended before the first
C24_Witness ==
    \E u \in 1..Len(uploads) :
        /\ uploads[u].response.status = 200
        /\ Len(uploads[u].audioJobs) = 2
        /\ uploads[u].audioJobs[2].ended = 1 /\ uploads[u].audioJobs[1].ended = 2
        /\ uploads[u].response.audioTracks[1].label = Commentary

\* C25: in the step in which a batch request deletes the uploaded file and
\* sends its response, no extraction of the request is running.
C25_NoExtractionOutlivesRequest ==
    [][\A u \in 1..Len(uploads) :
          (uploads[u].responses = 0 /\ uploads'[u].responses = 1) => ~InFlight(uploads'[u])
      ]_vars

\* C26: a batch request with a file keeps the file until it answers; when it
\* has answered, the delete has been attempted, the file is gone unless the
\* delete failed, and the response is the one the extractions determine,
\* whether the delete failed or not.
C26_UploadCleanUp ==
    \A u \in 1..Len(uploads) :
        LET up == uploads[u]
        IN  up.originalname # <<>> =>
                /\ up.pc # "done" => up.deleted = "no" /\ up.inputExists /\ up.responses = 0
                /\ up.pc = "done" =>
                       /\ up.deleted \in {"ok", "failed"}
                       /\ up.inputExists <=> up.deleted = "failed"
                       /\ up.response.status = IF BatchFailure(up) THEN 500 ELSE 200
                       /\ up.response.status = 500 => up.response = FailureResponse
                       /\ up.response.status = 200 =>
                              /\ up.response.filename = up.originalname
                              /\ ManifestKeys \subseteq up.response.keys

\* a manifest sent although the delete failed, and an error sent for a probe
\* failure after the file was deleted
C26_Witness ==
    \E u, v \in 1..Len(uploads) :
        /\ uploads[u].response.status = 200 /\ uploads[u].deleted = "failed"
        /\ uploads[u].inputExists
        /\ uploads[v].response.status = 500 /\ uploads[v].probe = "err"
        /\ uploads[v].deleted = "ok" /\ ~uploads[v].inputExists

(***************************************************************************)
(* Attendance tracker (attendence_ai/react.js).                            *)
(***************************************************************************)
\* a JavaScript number that may be NaN
Number(n) == [nan |-> FALSE, n |-> n]
NaN == [nan |-> TRUE, n |-> 0]

DigitVal(c) == (CHOOSE d \in 1..10 : Digit[d] = c) - 1

RECURSIVE DigitsValue(_, _)
\* the value of the leading decimal digits of s, after acc
DigitsValue(s, acc) ==
    IF Len(s) = 0 \/ s[1] \notin DigitChars THEN acc
    ELSE DigitsValue(Tail(s), 10 * acc + DigitVal(s[1]))

\* parseInt(text, 10): leading white space, an optional sign, then digits up
\* to the first other character; NaN without a digit
ParseInt(text) ==
    LET t == TrimLeft(text)
        signed == Len(t) > 0 /\ t[1] \in {"-", "+"}
        body == IF signed THEN Tail(t) ELSE t
    IN  IF Len(body) = 0 \/ body[1] \notin DigitChars THEN NaN
        ELSE IF signed /\ t[1] = "-" THEN Number(0 - DigitsValue(body, 0))
        ELSE Number(DigitsValue(body, 0))

\* parseInt(x) || fallback
ParseIntOr(text, fallback) ==
    IF ParseInt(text).nan \/ ParseInt(text).n = 0 THEN fallback ELSE ParseInt(text).n

\* what a user can have typed into a number input
NumberTexts == { <<>>, <<"-", "1">>, <<"2", "5">>, <<"1", ".", "5">> }
ThresholdTexts == { <<>>, <<"1", "0", "0">> }
Names == { <<"M">>, <<" ">> }

\* lines 11, 14: the subject the application starts with
ExampleSubject ==
    [id |-> 1, name |-> <<"E", "x", "a", "m", "p", "l", "e">>,
     attended |-> 15, total |-> 20, threshold |-> Number(75)]

\* lines 43-52
NewSubject(id, name, thresholdText) ==
    [id |-> id, name |-> name, attended |-> 0, total |-> 0,
     threshold |-> Number(ParseIntOr(thresholdText, 75))]

\* lines 163-170 and 43-52: the form is submitted with a name that is not blank
AddSubject(name, thresholdText, t) ==
    /\ Trim(name) # <<>>
    /\ t > clock
    /\ clock' = t
    /\ subjects' = Append(subjects, NewSubject(t, name, thresholdText))
    /\ UNCHANGED <<selectedSubjectId, detail, avars, ivars, nvars, bvars>>

\* lines 55-57
UpdateAttendance(subs, id, attended, total) ==
    [i \in 1..Len(subs) |->
        IF subs[i].id = id THEN [subs[i] EXCEPT !.attended = attended, !.total = total]
        ELSE subs[i]]

\* line 252
HandlePresent(i) ==
    /\ i \in 1..Len(subjects)
    /\ subjects[i].total < MaxCount /\ subjects[i].attended < MaxCount
    /\ subjects' = UpdateAttendance(subjects, subjects[i].id,
                                    subjects[i].attended + 1, subjects[i].total + 1)
    /\ UNCHANGED <<selectedSubjectId, clock, detail, avars, ivars, nvars, bvars>>

\* line 253
HandleAbsent(i) ==
    /\ i \in 1..Len(subjects)
    /\ subjects[i].total < MaxCount
    /\ subjects' = UpdateAttendance(subjects, subjects[i].id,
                                    subjects[i].attended, subjects[i].total + 1)
    /\ UNCHANGED <<selectedSubjectId, clock, detail, avars, ivars, nvars, bvars>>

\* line 257: a click on a subject of the list
SelectSubject(i) ==
    /\ i \in 1..Len(subjects)
    /\ selectedSubjectId # subjects[i].id
    /\ selectedSubjectId' = subjects[i].id
    /\ UNCHANGED <<subjects, clock, detail, avars, ivars, nvars, bvars>>

\* line 81: subjects.find(s => s.id === selectedSubjectId), 0 if there is none
SelectedIndex ==
    IF \E i \in 1..Len(subjects) : subjects[i].id = selectedSubjectId
    THEN CHOOSE i \in 1..Len(subjects) :
             /\ subjects[i].id = selectedSubjectId
             /\ \A j \in 1..(i - 1) : subjects[j].id # selectedSubjectId
    ELSE 0

\* line 411: the Attended field of the manual adjustment
SetAttended(text) ==
    /\ SelectedIndex # 0
    /\ subjects' = UpdateAttendance(subjects, selectedSubjectId, ParseIntOr(text, 0),
                                    subjects[SelectedIndex].total)
    /\ subjects' # subjects
    /\ UNCHANGED <<selectedSubjectId, clock, detail, avars, ivars, nvars, bvars>>

\* line 420: the Total field of the manual adjustment
SetTotal(text) ==
    /\ SelectedIndex # 0
    /\ subjects' = UpdateAttendance(subjects, selectedSubjectId,
                                    subjects[SelectedIndex].attended, ParseIntOr(text, 0))
    /\ subjects' # subjects
    /\ UNCHANGED <<selectedSubjectId, clock, detail, avars, ivars, nvars, bvars>>

\* lines 60-62 and 321-324
UpdateSubjectDetails(name, thresholdText) ==
    /\ SelectedIndex # 0
    /\ subjects' = [i \in 1..Len(subjects) |->
                       IF subjects[i].id = selectedSubjectId
                       THEN [subjects[i] EXCEPT !.name = name,
                                                !.threshold = ParseInt(thresholdText)]
                       ELSE subjects[i]]
    /\ subjects' # subjects
    /\ UNCHANGED <<selectedSubjectId, clock, detail, avars, ivars, nvars, bvars>>

\* lines 65-70
DeleteSubject(i) ==
    /\ i \in 1..Len(subjects)
    /\ subjects' = SelectSeq(subjects, LAMBDA sub : sub.id # subjects[i].id)
    /\ selectedSubjectId' = IF selectedSubjectId = subjects[i].id THEN 0 ELSE selectedSubjectId
    /\ UNCHANGED <<clock, detail, avars, ivars, nvars, bvars>>

\* lines 8-25 with an empty localStorage
InitTracker ==
    /\ AppIdle /\ NormIdle /\ BatchIdle /\ ProIdle
    /\ subjects = <<ExampleSubject>>
    /\ selectedSubjectId = 0
    /\ clock = 1
    /\ detail = <<>>

NextTracker ==
    \/ \E name \in Names, th \in ThresholdTexts, t \in (clock + 1)..MaxTrackerClock :
          Len(subjects) < MaxTrackerSubjects /\ AddSubject(name, th, t)
    \/ \E i \in 1..Len(subjects) : HandlePresent(i)
    \/ \E i \in 1..Len(subjects) : HandleAbsent(i)
    \/ \E i \in 1..Len(subjects) : SelectSubject(i)
    \/ \E text \in NumberTexts : SetAttended(text)
    \/ \E text \in NumberTexts : SetTotal(text)
    \/ \E th \in ThresholdTexts :
          SelectedIndex # 0 /\ UpdateSubjectDetails(subjects[SelectedIndex].name, th)
    \/ \E i \in 1..Len(subjects) : DeleteSubject(i)

SpecTracker == InitTracker /\ [][NextTracker]_vars

\* C27: every subject of the attendance tracker has 0 <= attended <= total.
C27_CountersInRange ==
    \A i \in 1..Len(subjects) :
        0 <= subjects[i].attended /\ subjects[i].attended <= subjects[i].total

(***************************************************************************)
(* The analysis of SubjectDetail (react.js, lines 293-307).  The code      *)
(* computes in double precision; threshold / 100 is rounded, which can     *)
(* move a quotient that is exactly an integer to just above or just below  *)
(* it, so Math.ceil may give one more and Math.floor one less than the     *)
(* exact value.  A quotient that is not an integer is not affected.        *)
(***************************************************************************)
Finite(n) == [finite |-> TRUE, n |-> n]
Infinity == [finite |-> FALSE, n |-> 0]

\* Math.floor(x / y) and Math.ceil(x / y) of the exact quotient, x >= 0, y > 0
FloorDiv(x, y) == x \div y
CeilDiv(x, y) == (x + y - 1) \div y

\* line 293 and 300: percentage >= threshold
AtThreshold(attended, total, threshold) == 100 * attended >= threshold * total

SafeSkipsOutcomes(attended, total, threshold) ==
    LET x == 100 * attended - threshold * total
    IN  {Finite(FloorDiv(x, threshold))}
            \cup (IF x % threshold = 0 THEN {Finite(FloorDiv(x, threshold) - 1)} ELSE {})

NeededOutcomesFloor(attended, total, threshold) ==
    LET x == threshold * total - 100 * attended
        y == 100 - threshold
    IN  IF y = 0 THEN {Infinity} ELSE {Finite(FloorDiv(x, y))}

\* line 304: Math.ceil((thresholdRatio * total - attended) / (1 - thresholdRatio));
\* a positive number divided by zero is Infinity
NeededOutcomes(attended, total, threshold) ==
    LET x == threshold * total - 100 * attended
        y == 100 - threshold
    IN  IF y = 0 THEN {Infinity}
        ELSE {Finite(CeilDiv(x, y))}
                 \cup (IF x % y = 0 THEN {Finite(CeilDiv(x, y) + 1)} ELSE {})

NoAnalysis == [safeSkips |-> Finite(0), needed |-> Finite(0), branch |-> "none"]

\* lines 295-307
AnalysisOutcomes(attended, total, threshold) ==
    IF total = 0 THEN {[safeSkips |-> Finite(0), needed |-> Finite(0), branch |-> "empty"]}
    ELSE IF AtThreshold(attended, total, threshold)
    THEN {[safeSkips |-> k, needed |-> Finite(0), branch |-> "safe"] :
              k \in SafeSkipsOutcomes(attended, total, threshold)}
    ELSE {[safeSkips |-> Finite(0), needed |-> n, branch |-> "below"] :
              n \in NeededOutcomes(attended, total, threshold)}

Thresholds == 1..100

\* a subject is handed to SubjectDetail
InitNeeded ==
    /\ AppIdle /\ NormIdle /\ BatchIdle /\ ProIdle
    /\ subjects = <<>> /\ selectedSubjectId = 0 /\ clock = 0
    /\ detail \in {<<[attended |-> a, total |-> n, threshold |-> t, analysis |-> NoAnalysis]>> :
                      a \in 0..MaxClasses, n \in 0..MaxClasses, t \in Thresholds}
    /\ detail[1].attended <= detail[1].total

\* the component renders: useMemo computes the analysis
Analyse ==
    /\ detail # <<>>
    /\ detail[1].analysis = NoAnalysis
    /\ \E r \in AnalysisOutcomes(detail[1].attended, detail[1].total, detail[1].threshold) :
          detail' = <<[detail[1] EXCEPT !.analysis = r]>>
    /\ UNCHANGED <<subjects, selectedSubjectId, clock, avars, ivars, nvars, bvars>>

NextNeeded == Analyse

SpecNeeded == InitNeeded /\ [][NextNeeded]_vars

\* the analysis of a subject below its threshold has been computed
BelowAnalysed ==
    /\ detail # <<>>
    /\ detail[1].analysis.branch = "below"

\* the classes needed are a number n >= 0 that lifts the subject to its threshold
NeededReaches(d) ==
    /\ d.analysis.needed.finite
    /\ d.analysis.needed.n >= 0
    /\ 100 * (d.attended + d.analysis.needed.n) >= d.threshold * (d.total + d.analysis.needed.n)

\* C30, as claimed: for every threshold in 1..100 and every subject below
\* it, 'needed' is a finite non-negative integer and attending that many
\* classes reaches the threshold.
C30_NeededReachesThreshold == BelowAnalysed => NeededReaches(detail[1])

\* C30, amended: the same for every threshold in 1..99.
C30_NeededReachesBelow100 ==
    (BelowAnalysed /\ detail[1].threshold <= 99) => NeededReaches(detail[1])

\* 1 of 2 classes at a threshold of 75: two more classes are needed
C30_Witness ==
    /\ BelowAnalysed
    /\ detail[1].attended = 1 /\ detail[1].total = 2 /\ detail[1].threshold = 75
    /\ detail[1].analysis.needed = Finite(2)

(***************************************************************************)
(* Attendance tracker with a timetable (attendance-tracker/src/App.js).    *)
(* A subject is [id, name, threshold]; the timetable maps a day to its     *)
(* entries [id, startTime, endTime, subjectId, timeSlotId]; the attendance *)
(* records map a record key to [subjectId, status, date].  A time of day   *)
(* "HH:MM" is a sequence of characters; a date is one piece of text.       *)
(* Date.now() gives a later value at every form submission.                *)
(***************************************************************************)
\* line 276 (the first two days of the grid)
Days == <<"Monday", "Tuesday">>
\* line 278: the week shown (this week, last week)
WeekOffsets == {0, 0 - 1}

\* lines 387-389: cellDate.toISOString().split('T')[0] of a cell, on 2026-11-03
CellDate(weekOffset, dayIndex) ==
    IF weekOffset = 0 THEN <<"2026-11-02", "2026-11-03">>[dayIndex]
    ELSE <<"2026-10-26", "2026-10-27">>[dayIndex]

NineAM == <<"0", "9", ":", "0", "0">>
TenAM == <<"1", "0", ":", "0", "0">>
ElevenAM == <<"1", "1", ":", "0", "0">>
Noon == <<"1", "2", ":", "0", "0">>
EightAM == <<"0", "8", ":", "0", "0">>

\* lines 36-39
DefaultTimeSlots ==
    << [id |-> 1, start |-> NineAM, end |-> TenAM],
       [id |-> 2, start |-> TenAM, end |-> ElevenAM] >>

\* the UTF-16 code unit of a character of a time of day
CharCode(c) == IF c = ":" THEN 58 ELSE 48 + DigitVal(c)

RECURSIVE StrLess(_, _)
\* a < b for strings (a.localeCompare(b) < 0 on times of day)
StrLess(a, b) ==
    IF Len(b) = 0 THEN FALSE
    ELSE IF Len(a) = 0 THEN TRUE
    ELSE IF a[1] # b[1] THEN CharCode(a[1]) < CharCode(b[1])
    ELSE StrLess(Tail(a), Tail(b))

RECURSIVE StablePerm(_)
\* Array.prototype.sort is stable: the order of the indices of keys
StablePerm(keys) ==
    IF Len(keys) = 0 THEN <<>>
    ELSE LET n == Len(keys)
             p == StablePerm(SubSeq(keys, 1, n - 1))
             pos == Cardinality({j \in 1..(n - 1) : ~StrLess(keys[n], keys[p[j]])})
         IN  SubSeq(p, 1, pos) \o <<n>> \o SubSeq(p, pos + 1, n - 1)

\* line 110: daySlots.sort((a, b) => a.startTime.localeCompare(b.startTime))
SortEntries(es) ==
    LET p == StablePerm([i \in 1..Len(es) |-> es[i].startTime])
    IN  [i \in 1..Len(es) |-> es[p[i]]]

\* line 136: .sort((a,b) => a.start.localeCompare(b.start))
SortTimeSlots(ts) ==
    LET p == StablePerm([i \in 1..Len(ts) |-> ts[i].start])
    IN  [i \in 1..Len(ts) |-> ts[p[i]]]

ProSubjectIds == {proSubjects[i].id : i \in 1..Len(proSubjects)}
TimeSlotIds == {timeSlots[i].id : i \in 1..Len(timeSlots)}

\* timetable[day] || []
DayEntries(day) == IF day \in DOMAIN timetable THEN timetable[day] ELSE <<>>

\* the entries of the whole timetable
AllEntries == UNION {{timetable[d][i] : i \in 1..Len(timetable[d])} : d \in DOMAIN timetable}

\* line 329: the entry shown in the cell of a day and a time slot
CellEntry(day, tsId) ==
    LET es == SelectSeq(DayEntries(day), LAMBDA e : e.timeSlotId = tsId)
    IN  IF es = <<>> THEN <<>> ELSE <<es[1]>>

\* the value of an <option> of the subject select (line 473)
OptionValue(id) == ToStr(id)

\* lines 60-70
SubjectStatsOf(subs, recs) ==
    [id \in {subs[i].id : i \in 1..Len(subs)} |->
        LET relevant == {k \in DOMAIN recs : recs[k].subjectId = id}
        IN  [attended |-> Cardinality({k \in relevant : recs[k].status = "present"}),
             total |-> Cardinality(relevant)]]

subjectStats == SubjectStatsOf(proSubjects, attendanceRecords)

\* lines 80-83
ProAddSubject(name, thresholdText, t) ==
    /\ Trim(name) # <<>>      \* line 223: if (!name.trim()) return
    /\ t > proClock
    /\ proClock' = t
    /\ proSubjects' = Append(proSubjects,
           [id |-> t, name |-> name, threshold |-> ParseIntOr(thresholdText, 75)])
    /\ UNCHANGED <<proSelected, timetable, timeSlots, attendanceRecords, rvars, ivars, nvars, bvars>>

\* deleteSubject without lines 96-100
DeleteSubjectKeepRecords(id) ==
    /\ proSubjects' = SelectSeq(proSubjects, LAMBDA sub : sub.id # id)
    /\ timetable' = [d \in DOMAIN timetable |->
                        SelectSeq(timetable[d], LAMBDA slot : slot.subjectId # id)]
    /\ attendanceRecords' = attendanceRecords
    /\ proSelected' = IF proSelected = id THEN 0 ELSE proSelected
    /\ UNCHANGED <<timeSlots, proClock, rvars, ivars, nvars, bvars>>

\* lines 89-102
ProDeleteSubject(id) ==
    /\ proSubjects' = SelectSeq(proSubjects, LAMBDA sub : sub.id # id)
    /\ timetable' = [d \in DOMAIN timetable |->
                        SelectSeq(timetable[d], LAMBDA slot : slot.subjectId # id)]
    /\ attendanceRecords' =
           [k \in {j \in DOMAIN attendanceRecords : attendanceRecords[j].subjectId # id} |->
               attendanceRecords[k]]
    /\ proSelected' = IF proSelected = id THEN 0 ELSE proSelected
    /\ UNCHANGED <<timeSlots, proClock, rvars, ivars, nvars, bvars>>

\* line 250: onSelect(id)
ProSelectSubject(id) ==
    /\ proSelected' = id
    /\ UNCHANGED <<proSubjects, timetable, timeSlots, attendanceRecords, proClock,
                   rvars, ivars, nvars, bvars>>

\* line 175: onClose of SubjectDetail
ProCloseDetail ==
    /\ proSelected # 0
    /\ proSelected' = 0
    /\ UNCHANGED <<proSubjects, timetable, timeSlots, attendanceRecords, proClock,
                   rvars, ivars, nvars, bvars>>

\* lines 104-114; the subject is the value chosen in SlotEditModal
AddTimetableEntry(day, timeSlotId, subjectId, t) ==
    /\ t > proClock
    /\ proClock' = t
    /\ LET found == SelectSeq(timeSlots, LAMBDA ts : ts.id = timeSlotId)
       IN  IF found = <<>> THEN timetable' = timetable
           ELSE LET newEntry == [id |-> t, startTime |-> found[1].start,
                                 endTime |-> found[1].end,
                                 subjectId |-> ParseInt(subjectId).n,
                                 timeSlotId |-> timeSlotId]
                    daySlots == SortEntries(Append(DayEntries(day), newEntry))
                IN  timetable' = [d \in DOMAIN timetable \cup {day} |->
                                     IF d = day THEN daySlots ELSE timetable[d]]
    /\ UNCHANGED <<proSubjects, proSelected, timeSlots, attendanceRecords,
                   rvars, ivars, nvars, bvars>>

\* lines 116-124
UpdateTimetableEntry(day, entryId, newSubjectId) ==
    /\ timetable' = [timetable EXCEPT ![day] =
           [i \in 1..Len(timetable[day]) |->
               IF timetable[day][i].id = entryId
               THEN [timetable[day][i] EXCEPT !.subjectId = ParseInt(newSubjectId).n]
               ELSE timetable[day][i]]]
    /\ UNCHANGED <<proSubjects, proSelected, timeSlots, attendanceRecords, proClock,
                   rvars, ivars, nvars, bvars>>

\* lines 126-128
DeleteTimetableEntry(day, entryId) ==
    /\ timetable' = [timetable EXCEPT ![day] =
           SelectSeq(timetable[day], LAMBDA entry : entry.id # entryId)]
    /\ UNCHANGED <<proSubjects, proSelected, timeSlots, attendanceRecords, proClock,
                   rvars, ivars, nvars, bvars>>

\* lines 135-137, called by handleAdd (lines 344-350)
AddCustomTimeSlot(start, end, t) ==
    /\ ~(~StrLess(start, end))      \* line 345: if (start >= end) return
    /\ t > proClock
    /\ proClock' = t
    /\ timeSlots' = SortTimeSlots(Append(timeSlots, [id |-> t, start |-> start, end |-> end]))
    /\ UNCHANGED <<proSubjects, proSelected, timetable, attendanceRecords,
                   rvars, ivars, nvars, bvars>>

\* lines 139-146
DeleteCustomTimeSlot(id) ==
    /\ timeSlots' = SelectSeq(timeSlots, LAMBDA ts : ts.id # id)
    /\ timetable' = [d \in DOMAIN timetable |->
                        SelectSeq(timetable[d], LAMBDA slot : slot.timeSlotId # id)]
    /\ UNCHANGED <<proSubjects, proSelected, attendanceRecords, proClock,
                   rvars, ivars, nvars, bvars>>

\* line 149 keyed by the date alone
RecordKeyByDate(date, slotId) == <<date>>

\* line 149: `${date.toISOString().split('T')[0]}_${slot.id}`
RecordKey(date, slotId) == <<date, "_">> \o ToStr(slotId)

\* lines 148-151
MarkAttendance(slot, date, status) ==
    /\ LET recordKey == RecordKey(date, slot.id)
       IN  attendanceRecords' =
               [k \in DOMAIN attendanceRecords \cup {recordKey} |->
                   IF k = recordKey
                   THEN [subjectId |-> slot.subjectId, status |-> status, date |-> date]
                   ELSE attendanceRecords[k]]
    /\ UNCHANGED <<proSubjects, proSelected, timetable, timeSlots, proClock,
                   rvars, ivars, nvars, bvars>>

MaxProSubjects == 2     \* subjects of the timetable tracker
MaxEntries == 2         \* entries of the timetable
MaxTimeSlots == 3       \* time slots of the timetable
MaxProClock == 5        \* last value of Date.now() in the timetable tracker

\* lines 33-42 with an empty localStorage
InitPro ==
    /\ AppIdle /\ NormIdle /\ BatchIdle /\ TrackerIdle
    /\ proSubjects = <<>>
    /\ timetable = <<>>
    /\ timeSlots = DefaultTimeSlots
    /\ attendanceRecords = <<>>
    /\ proSelected = 0
    /\ proClock = 2

\* the cells of the grid that show an entry
ShownEntries(dayIndex) ==
    {CellEntry(Days[dayIndex], tsId)[1] :
        tsId \in {id \in TimeSlotIds : CellEntry(Days[dayIndex], id) # <<>>}}

NextPro ==
    \/ \E t \in {proClock + 1} \cap (1..MaxProClock) :
          Len(proSubjects) < MaxProSubjects /\ ProAddSubject(<<"M">>, <<"7", "5">>, t)
    \/ \E id \in ProSubjectIds : ProDeleteSubject(id)
    \/ \E id \in ProSubjectIds : ProSelectSubject(id)
    \/ ProCloseDetail
    \* an empty cell in edit mode, then a subject chosen in the modal
    \/ \E i \in 1..Len(Days), tsId \in TimeSlotIds, sid \in ProSubjectIds,
          t \in {proClock + 1} \cap (1..MaxProClock) :
          /\ Cardinality(AllEntries) < MaxEntries
          /\ CellEntry(Days[i], tsId) = <<>>
          /\ AddTimetableEntry(Days[i], tsId, OptionValue(sid), t)
    \/ \E i \in 1..Len(Days), sid \in ProSubjectIds :
          \E entry \in ShownEntries(i) :
              UpdateTimetableEntry(Days[i], entry.id, OptionValue(sid))
    \/ \E i \in 1..Len(Days) : \E entry \in ShownEntries(i) :
          DeleteTimetableEntry(Days[i], entry.id)
    \/ \E se \in {<<ElevenAM, Noon>>, <<EightAM, NineAM>>, <<Noon, ElevenAM>>},
          t \in {proClock + 1} \cap (1..MaxProClock) :
          Len(timeSlots) < MaxTimeSlots /\ AddCustomTimeSlot(se[1], se[2], t)
    \/ \E id \in TimeSlotIds : DeleteCustomTimeSlot(id)
    \/ \E i \in 1..Len(Days), w \in WeekOffsets, status \in {"present", "absent"} :
          \E entry \in ShownEntries(i) :
              MarkAttendance(entry, CellDate(w, i), status)

SpecPro == InitPro /\ [][NextPro]_vars

\* C28: no timetable entry and no attendance record refers to a subject id
\* that is not in the subject list, and the selected subject is none or an
\* existing subject.
C28_ReferentialIntegrity ==
    /\ \A e \in AllEntries : e.subjectId \in ProSubjectIds
    /\ \A k \in DOMAIN attendanceRecords : attendanceRecords[k].subjectId \in ProSubjectIds
    /\ proSelected = 0 \/ proSelected \in ProSubjectIds

\* the first subject (id 3) has been deleted; the remaining subject (id 4)
\* is selected and owns the entry (id 5) and the only record left
C28_Witness ==
    /\ Len(proSubjects) = 1 /\ proSubjects[1].id = 4
    /\ proSelected = 4
    /\ \E e \in AllEntries : e.id = 5 /\ e.subjectId = 4
    /\ Cardinality(DOMAIN attendanceRecords) = 1
    /\ timeSlots = DefaultTimeSlots

\* the key under which the record of a (date, timetable entry) pair is kept
PairKey(date, entryId) == <<date, "_">> \o ToStr(entryId)

\* what a call markAttendance(entry, date, status) leaves behind
MarkedOnce(entry, date, status) ==
    LET key == PairKey(date, entry.id)
        old == attendanceRecords
        new == attendanceRecords'
        before == SubjectStatsOf(proSubjects, old)
        after == SubjectStatsOf(proSubjects', new)
    IN  \* the pair has one record, with the status of this call
        /\ key \in DOMAIN new
        /\ new[key] = [subjectId |-> entry.subjectId, status |-> status, date |-> date]
        \* the records of the other pairs are as they were
        /\ DOMAIN new = DOMAIN old \cup {key}
        /\ \A k \in DOMAIN old \ {key} : new[k] = old[k]
        \* marking the pair again does not increase the subject's total
        /\ (key \in DOMAIN old /\ old[key].subjectId = entry.subjectId)
               => after[entry.subjectId].total <= before[entry.subjectId].total
        /\ \A id \in DOMAIN after : after[id].attended <= after[id].total

====
